---------------------------- MODULE Spec2Model ----------------------------
(***************************************************************************)
(* Dock management: the dock state engine (DockManager.determine_state),   *)
(* its actuator dispatcher (DockManager._handle_state_change) and the PLC  *)
(* command channel (PLCManager), as a state machine.                       *)
(*                                                                         *)
(* Time is the value of time.time() in whole seconds.  Python's None is    *)
(* the integer -1 for a timestamp and the empty sequence for an object.    *)
(* Points handed to is_point_in_zone carry doubled coordinates, so that    *)
(* the box centre ((x1+x2)/2, (y1+y2)/2) stays an integer.                 *)
(***************************************************************************)
EXTENDS Integers, Sequences, FiniteSets, TLC

VARIABLES
    \* ---- configuration read at construction
    zone_coordinates,               \* DockManager.zone_coordinates (<<>> is None)
    parking_line_points,            \* DockManager.parking_line_points (<<>> is None)
    wait_time_seconds,              \* DockManager.wait_time_seconds
    grace_period_frames,            \* DockManager.grace_period_frames
    FRAME_SKIP,                     \* config.FRAME_SKIP as frame_reading_loop finds it
    enable_batch_processing,        \* DockManagementUI.enable_batch_processing
    \* ---- the wall clock
    now,                            \* what time.time() returns
    \* ---- DockManager
    current_state,                  \* DockManager.current_state
    previous_state,                 \* DockManager.previous_state
    parking_line_touch_start_time,  \* the dwell timer, None when unset
    not_touching_count,             \* DockManager.not_touching_count
    last_detection_summary,         \* <<>> or <<summary>>
    \* ---- what the last determine_state call sent to the actuators
    last_effects,
    \* ---- PLCManager
    is_running,                     \* PLCManager.is_running
    plc_thread_alive,               \* PLCManager.plc_thread.is_alive()
    command_queue,                  \* PLCManager.command_queue
    plc_current_state,              \* PLCManager.current_state
    is_connected,                   \* PLCManager.is_connected
    last_error,                     \* PLCManager.last_error
    last_reconnect_attempt,         \* local of PLCManager._plc_loop
    \* ---- the Modbus client and the PLC behind it
    client_is_open,                 \* ModbusClient.is_open
    plc_coils,                      \* the coils of the PLC from coil_start_address on
    last_coil_write,                \* <<>> or the last write_multiple_coils request
    link_ok,                        \* whether the PLC answers on the network
    \* ---- history of the calls, read by the properties only
    h_calls,                        \* parity of the number of determine_state calls
    h_streak,                       \* see History
    h_orig,                         \* see History
    h_nt_run,                       \* consecutive truck-present, not-touching calls
    h_timer_started,                \* the call time at which the dwell timer was last set
    h_green_ep,                     \* see History
    h_back,                         \* see History
    h_disp,                         \* the states of the last two dispatches
    h_unwritten,                    \* the state of a command taken from the queue and
                                    \* not written, "none" once a later write succeeds
    h_attempt,                      \* <<parity of the number of client.open() calls,
                                    \*   time of the last one or None>>
    \* ---- one call of a function of helpers.py or detector.py
    fn_call,                        \* the function and its arguments, <<>> for none
    fn_result,                      \* <<>> before the call returns, <<value>> after
    \* ---- DockManagementUI: the error statistics and the threads that report
    error_stats,                    \* DockManagementUI.error_stats
    error_lock,                     \* DockManagementUI.error_lock: its holder, 0 when free
    track_pc,                       \* where each caller of track_error stands
    track_arg,                      \* each caller's <<error_type, message>>
    track_read,                     \* the counter value a caller's += has read
    h_incr,                         \* per counter, the increments made since the last reset
    h_messages,                     \* every detection error message recorded, in order
    h_track_calls,                  \* the calls of track_error that have returned
    \* ---- the Tk main thread inside DockManager.get_parking_wait_remaining
    wait_pc,                        \* "idle", "checked" after the None test
    \* ---- DockManagementUI: the three threads of the multi-threaded mode
    ui_is_running,                  \* DockManagementUI.is_running
    frame_counter,                  \* local of frame_reading_loop: frames read so far
    reader_pc,                      \* where frame_reading_loop stands
    reader_tracked,                 \* the error types frame_reading_loop has passed to
                                    \* track_error in the iteration under way
    frame_queue,                    \* DockManagementUI.frame_queue, of frame counters
    detect_pc,                      \* where detection_processing_loop stands
    batch_frames,                   \* local of detection_processing_loop
    batch_detected,                 \* batch_detections: what detect_batch returned
    batch_i,                        \* the position of the for loop in the batch
    detect_tracked,                 \* the error types detection_processing_loop has
                                    \* passed to track_error for the frame under way
    result_queue,                   \* DockManagementUI.result_queue
    ui_pc,                          \* where ui_update_loop stands
    h_evaluated                     \* the read counter of the last frame passed to
                                    \* determine_state, 0 before the first

engine_vars == <<current_state, previous_state, parking_line_touch_start_time,
                 not_touching_count, last_detection_summary>>
config_vars == <<zone_coordinates, parking_line_points, wait_time_seconds,
                 grace_period_frames, FRAME_SKIP, enable_batch_processing>>
plc_vars == <<is_running, plc_thread_alive, command_queue, plc_current_state, is_connected,
              last_error, last_reconnect_attempt, client_is_open, plc_coils,
              last_coil_write, link_ok>>
hist_vars == <<h_calls, h_streak, h_orig, h_nt_run, h_timer_started,
               h_green_ep, h_back, h_disp, h_unwritten, h_attempt>>
track_vars == <<error_stats, error_lock, track_pc, track_arg, track_read, h_incr,
                h_messages, h_track_calls>>
main_vars == <<wait_pc>>
fn_vars == <<fn_call, fn_result, track_vars, main_vars>>
pipe_vars == <<ui_is_running, frame_counter, reader_pc, reader_tracked, frame_queue,
               detect_pc, batch_frames, batch_detected, batch_i, detect_tracked,
               result_queue, ui_pc, h_evaluated>>
vars == <<config_vars, now, engine_vars, last_effects, plc_vars, hist_vars, fn_vars,
          pipe_vars>>

-----------------------------------------------------------------------------
(* Bounds of the model                                                     *)

MaxTime == 4            \* the clock runs from StartTime to MaxTime
WaitTime == 2           \* the configured wait_time_seconds, in seconds
GracePeriod == 2        \* the configured grace_period_frames, in evaluations
MaxTrucks == 2          \* a summary lists at most MaxTrucks trucks
MaxBacklog == 2         \* frames are evaluated while fewer commands wait for the PLC
GridMax == 4            \* polyline points have coordinates in 0..GridMax
MaxBatch == 2           \* detect_batch is called on at most MaxBatch frames
MaxYield == 3           \* the model reports on at most MaxYield frames
VideoFrames == 12       \* the video source ends after VideoFrames frames
MaxFrameQueue == 2      \* the configured MAX_FRAME_QUEUE_SIZE
MaxResultQueue == 2     \* the configured MAX_RESULT_QUEUE_SIZE

-----------------------------------------------------------------------------
(* Values                                                                  *)

None == -1

DockStates == {"UNKNOWN", "RED", "YELLOW", "GREEN"}

Min(a, b) == IF a <= b THEN a ELSE b
Max(a, b) == IF a >= b THEN a ELSE b

-----------------------------------------------------------------------------
(* Geometry predicates (dock_utils/helpers.py)                             *)

\* x <= xinters of is_point_in_zone, xinters = (y-p1y)*(p2x-p1x)/(p2y-p1y) + p1x,
\* decided without the division; p1y # p2y where the code computes it.
x_le_xinters(x, y, p1, p2) ==
    IF p2[2] > p1[2]
    THEN (x - p1[1]) * (p2[2] - p1[2]) <= (y - p1[2]) * (p2[1] - p1[1])
    ELSE (x - p1[1]) * (p2[2] - p1[2]) >= (y - p1[2]) * (p2[1] - p1[1])

\* One polygon edge p1-p2 of the ray casting loop: whether `inside` toggles.
edge_toggles(x, y, p1, p2) ==
    /\ y > Min(p1[2], p2[2])
    /\ y <= Max(p1[2], p2[2])
    /\ x <= Max(p1[1], p2[1])
    /\ (p1[1] = p2[1] \/ x_le_xinters(x, y, p1, p2))

Doubled(p) == <<2 * p[1], 2 * p[2]>>

RECURSIVE ray_cast(_, _, _, _, _, _)
\* for i in range(1, n + 1): p2 = zone[i % n]; ...; p1 = p2
ray_cast(x, y, zone, i, p1, inside) ==
    IF i > Len(zone) THEN inside
    ELSE LET p2 == Doubled(zone[(i % Len(zone)) + 1])
         IN  ray_cast(x, y, zone, i + 1, p2,
                      IF edge_toggles(x, y, p1, p2) THEN ~inside ELSE inside)

\* A test that finds every point inside, whatever the polygon.
is_point_in_zone_always(point2, zone) == TRUE

\* is_point_in_zone(point, zone_coordinates); point2 is the point doubled.
is_point_in_zone(point2, zone) ==
    IF Len(zone) < 3 THEN FALSE
    ELSE ray_cast(point2[1], point2[2], zone, 1, Doubled(zone[1]), FALSE)

ccw(A, B, C) == (C[2] - A[2]) * (B[1] - A[1]) > (B[2] - A[2]) * (C[1] - A[1])

line_segment_intersects(A, B, C, D) ==
    /\ ccw(A, C, D) # ccw(B, C, D)
    /\ ccw(A, B, C) # ccw(A, B, D)

check_line_inside_box(box, line_points) ==
    IF Len(line_points) < 2 THEN FALSE
    ELSE LET box_left == Min(box[1], box[3])
             box_right == Max(box[1], box[3])
             box_top == Min(box[2], box[4])
             box_bottom == Max(box[2], box[4])
         IN  \/ \E k \in 1..Len(line_points) :
                   /\ box_left <= line_points[k][1] /\ line_points[k][1] <= box_right
                   /\ box_top <= line_points[k][2] /\ line_points[k][2] <= box_bottom
             \/ \E k \in 1..(Len(line_points) - 1) :
                   LET p1 == line_points[k]
                       p2 == line_points[k + 1]
                   IN  \/ line_segment_intersects(<<box_left, box_top>>,
                                                  <<box_right, box_top>>, p1, p2)
                       \/ line_segment_intersects(<<box_left, box_bottom>>,
                                                  <<box_right, box_bottom>>, p1, p2)
                       \/ line_segment_intersects(<<box_left, box_top>>,
                                                  <<box_left, box_bottom>>, p1, p2)
                       \/ line_segment_intersects(<<box_right, box_top>>,
                                                  <<box_right, box_bottom>>, p1, p2)

\* A box without its centre among the points tested.
is_bbox_in_zone_corners_only(bbox, zone) ==
    IF Len(zone) < 3 THEN TRUE
    ELSE LET corners == <<<<2 * bbox[1], 2 * bbox[2]>>, <<2 * bbox[3], 2 * bbox[2]>>,
                          <<2 * bbox[3], 2 * bbox[4]>>, <<2 * bbox[1], 2 * bbox[4]>>>>
         IN  \E k \in 1..Len(corners) : is_point_in_zone(corners[k], zone)

\* is_bbox_in_zone(bbox, zone_coordinates): the four corners, then the centre
\* ((x1 + x2) / 2, (y1 + y2) / 2), all doubled; a zone of None is <<>>.
is_bbox_in_zone(bbox, zone) ==
    IF Len(zone) < 3 THEN TRUE
    ELSE LET corners == <<<<2 * bbox[1], 2 * bbox[2]>>, <<2 * bbox[3], 2 * bbox[2]>>,
                          <<2 * bbox[3], 2 * bbox[4]>>, <<2 * bbox[1], 2 * bbox[4]>>,
                          <<bbox[1] + bbox[3], bbox[2] + bbox[4]>>>>
         IN  \E k \in 1..Len(corners) : is_point_in_zone(corners[k], zone)

\* DockManager.is_truck_in_zone: centre or bottom centre in the zone.
is_truck_in_zone(truck_bbox, zone) ==
    IF zone = <<>> THEN FALSE
    ELSE LET truck_center == <<truck_bbox[1] + truck_bbox[3], truck_bbox[2] + truck_bbox[4]>>
             truck_bottom == <<truck_bbox[1] + truck_bbox[3], 2 * truck_bbox[4]>>
         IN  is_point_in_zone(truck_center, zone) \/ is_point_in_zone(truck_bottom, zone)

\* DockManager.is_truck_touching_parking_line
is_truck_touching_parking_line(truck_bbox, line_points) ==
    IF Len(line_points) < 2 THEN FALSE
    ELSE check_line_inside_box(truck_bbox, line_points)

-----------------------------------------------------------------------------
(* The scene of the model: the zone, the parking line and the detections   *)

\* zone_config.json of the worked example, in units of ten pixels
ZONE_COORDINATES == <<<<0, 0>>, <<10, 0>>, <<10, 10>>, <<0, 10>>>>
PARKING_LINE_POINTS == <<<<5, 0>>, <<5, 10>>>>

TruckOnLine == <<4, 4, 6, 6>>       \* in the zone, on the parking line
TruckOffLine == <<6, 4, 9, 6>>      \* in the zone, off the parking line
TruckOutside == <<4, 8, 6, 14>>     \* centre outside the zone, box over the line's end
TruckBoxes == {TruckOnLine, TruckOffLine, TruckOutside}
HumanBox == <<4, 4, 5, 5>>

Detection(b) == [bbox |-> b]

TruckLists ==
    UNION {[1..n -> {Detection(b) : b \in TruckBoxes}] : n \in 0..MaxTrucks}
HumanLists == {<<>>, <<Detection(HumanBox)>>}

\* YOLODetector.get_detection_summary
get_detection_summary(detections) ==
    [truck_present |-> Len(detections.trucks) > 0,
     human_present |-> Len(detections.humans) > 0,
     trucks |-> detections.trucks,
     humans |-> detections.humans]

DetectionSummaries ==
    {get_detection_summary([trucks |-> t, humans |-> h]) :
        t \in TruckLists, h \in HumanLists}

-----------------------------------------------------------------------------
(* Configuration (config.py)                                               *)

ENABLE_API_CALLS == TRUE
ENABLE_DOCK_STATUS_API == TRUE
ENABLE_PLC == TRUE
PLC_GREEN_LIGHT_COILS == <<TRUE, FALSE, FALSE, FALSE, FALSE, FALSE, FALSE, FALSE>>
PLC_RED_LIGHT_COILS == <<FALSE, TRUE, FALSE, FALSE, FALSE, FALSE, FALSE, FALSE>>
PLC_YELLOW_LIGHT_COILS == <<FALSE, FALSE, TRUE, FALSE, FALSE, FALSE, FALSE, FALSE>>
AllCoilsOff == [k \in 1..8 |-> FALSE]
PLC_COIL_START_ADDRESS == 0

command_queue_maxsize == 10     \* queue.Queue(maxsize=10)
reconnect_delay == 2            \* seconds between two reconnect attempts

-----------------------------------------------------------------------------
(* The dock state engine (DockManager.determine_state)                     *)

\* The two predicates on the boxes of the scene, computed once for the
\* configured zone and parking line.
TrucksInZone == {b \in TruckBoxes : is_truck_in_zone(b, ZONE_COORDINATES)}
TrucksOnLine ==
    {b \in TruckBoxes : is_truck_touching_parking_line(b, PARKING_LINE_POINTS)}

\* self.is_truck_in_zone(truck_bbox)
truck_in_zone_at(truck_bbox, zone) ==
    IF zone = ZONE_COORDINATES /\ truck_bbox \in TruckBoxes
    THEN truck_bbox \in TrucksInZone
    ELSE is_truck_in_zone(truck_bbox, zone)

\* self.is_truck_touching_parking_line(truck_bbox)
truck_on_line_at(truck_bbox, line_points) ==
    IF line_points = PARKING_LINE_POINTS /\ truck_bbox \in TruckBoxes
    THEN truck_bbox \in TrucksOnLine
    ELSE is_truck_touching_parking_line(truck_bbox, line_points)

\* A scan that tests the parking line on every truck, in the zone or not.
scan_trucks_any_truck(trucks, i, truck_in_zone, zone, line_points) ==
    <<\E k \in 1..Len(trucks) : truck_in_zone_at(trucks[k].bbox, zone),
      /\ \E k \in 1..Len(trucks) : truck_in_zone_at(trucks[k].bbox, zone)
      /\ \E k \in 1..Len(trucks) : truck_on_line_at(trucks[k].bbox, line_points)>>

\* A scan that takes every truck in the zone to be on the parking line.
scan_trucks_zone_only(trucks, i, truck_in_zone, zone, line_points) ==
    <<\E k \in 1..Len(trucks) : truck_in_zone_at(trucks[k].bbox, zone),
      \E k \in 1..Len(trucks) : truck_in_zone_at(trucks[k].bbox, zone)>>

RECURSIVE scan_trucks(_, _, _, _, _)
\* The loop over the trucks: <<truck_in_zone, truck_touching_line>>.
scan_trucks(trucks, i, truck_in_zone, zone, line_points) ==
    IF i > Len(trucks) THEN <<truck_in_zone, FALSE>>
    ELSE IF truck_in_zone_at(trucks[i].bbox, zone)
         THEN IF truck_on_line_at(trucks[i].bbox, line_points)
              THEN <<TRUE, TRUE>>
              ELSE scan_trucks(trucks, i + 1, TRUE, zone, line_points)
         ELSE scan_trucks(trucks, i + 1, truck_in_zone, zone, line_points)

scan(trucks, zone, line_points) == scan_trucks(trucks, 1, FALSE, zone, line_points)

\* Rule 1 without the reset of the timer.
no_truck_timer_kept(timer) == timer

\* Rule 1: what becomes of the dwell timer when no truck is present.
no_truck_timer(timer) == None

\* A timer restarted by every evaluation with a truck on the line.
start_or_continue_timer_restart(timer, current_time) == current_time

\* "Start or continue timer": the dwell timer of an evaluation with a truck on the line.
start_or_continue_timer(timer, current_time) ==
    IF timer = None THEN current_time ELSE timer

\* The comparison with > for >=; a comparison that always succeeds.
wait_time_elapsed_strict(elapsed_time, wait_time) == elapsed_time > wait_time
wait_time_elapsed_always(elapsed_time, wait_time) == TRUE

\* "Check if wait time has elapsed"
wait_time_elapsed(elapsed_time, wait_time) == elapsed_time >= wait_time

\* A countdown that ignores the human.
countdown_state_yellow(human_present) == "YELLOW"

\* A countdown that is RED with or without a human.
countdown_state_red(human_present) == "RED"

\* "Counter still running": the state shown during the countdown.
countdown_state(human_present) == IF human_present THEN "RED" ELSE "YELLOW"

\* A reset of the timer at the first evaluation without a truck on the line.
grace_period_step_no_grace(timer, count, grace_period) ==
    [timer |-> None, count |-> 0]

\* The grace period of an evaluation without a truck on the line:
\* the dwell timer and not_touching_count after it.
\* A grace period that is one evaluation longer.
grace_period_step_late(timer, count, grace_period) ==
    IF count + 1 > grace_period
    THEN [timer |-> None, count |-> 0]
    ELSE [timer |-> timer, count |-> count + 1]

grace_period_step(timer, count, grace_period) ==
    IF count + 1 >= grace_period
    THEN [timer |-> None, count |-> 0]
    ELSE [timer |-> timer, count |-> count + 1]

\* A fallback that warns about every truck, in the zone or not.
rule_6_or_default_yellow(truck_in_zone, truck_touching_line) == "YELLOW"

\* Rule 6 and the default after it: YELLOW for a truck in the zone off the line,
\* GREEN for trucks that are not in the zone.
rule_6_or_default(truck_in_zone, truck_touching_line) ==
    IF truck_in_zone /\ ~truck_touching_line THEN "YELLOW" ELSE "GREEN"

\* determine_state: the returned state, the dwell timer and not_touching_count
\* after the call.
determine_state(summary, current_time, timer, count, zone, line_points, wait_time, grace_period) ==
    IF ~summary.truck_present
    THEN [state |-> "GREEN", timer |-> no_truck_timer(timer), count |-> count]
    ELSE LET found == scan(summary.trucks, zone, line_points)
             truck_in_zone == found[1]
             truck_touching_line == found[2]
         IN  IF truck_in_zone /\ truck_touching_line
             THEN LET start == start_or_continue_timer(timer, current_time)
                      elapsed_time == current_time - start
                  IN  [state |-> IF wait_time_elapsed(elapsed_time, wait_time)
                                 THEN "GREEN"
                                 ELSE countdown_state(summary.human_present),
                       timer |-> start,
                       count |-> 0]
             ELSE IF truck_in_zone /\ summary.human_present
             THEN [state |-> "RED", timer |-> timer, count |-> count]
             ELSE LET g == IF ~truck_touching_line
                           THEN grace_period_step(timer, count, grace_period)
                           ELSE [timer |-> timer, count |-> count]
                  IN  [state |-> rule_6_or_default(truck_in_zone, truck_touching_line),
                       timer |-> g.timer,
                       count |-> g.count]

-----------------------------------------------------------------------------
(* Batch detection (YOLODetector.detect_batch)                             *)

CLASS_IDS == [person |-> 0, forklift |-> 1, truck |-> 2]

\* {'trucks': [], 'humans': []}
EmptyDetections == [trucks |-> <<>>, humans |-> <<>>]

RECURSIVE parse_rows(_, _, _, _)
\* The loop over the rows of one frame's result: forklifts are ignored, boxes
\* outside a configured zone are skipped, trucks and persons are collected.
parse_rows(rows, i, detections, zone) ==
    IF i > Len(rows) THEN detections
    ELSE LET row == rows[i]
         IN  IF row.cls = CLASS_IDS.forklift
             THEN parse_rows(rows, i + 1, detections, zone)
             ELSE IF Len(zone) >= 3 /\ ~is_bbox_in_zone(row.bbox, zone)
             THEN parse_rows(rows, i + 1, detections, zone)
             ELSE IF row.cls = CLASS_IDS.truck
             THEN parse_rows(rows, i + 1,
                             [detections EXCEPT !.trucks = Append(@, Detection(row.bbox))],
                             zone)
             ELSE IF row.cls = CLASS_IDS.person
             THEN parse_rows(rows, i + 1,
                             [detections EXCEPT !.humans = Append(@, Detection(row.bbox))],
                             zone)
             ELSE parse_rows(rows, i + 1, detections, zone)

\* "Ensure we return the same number of results as input frames"
fit_to_frames(batch_detections, frames) ==
    LET missing == Len(frames) - Len(batch_detections)
        padded == batch_detections \o [k \in 1..missing |-> EmptyDetections]
    IN  SubSeq(padded, 1, Len(frames))

\* detect_batch(frames) when the model returns.  raw is what the model yields, one
\* list of rows per frame it reports; error_at is None when results.pandas().xyxy
\* is read without an exception, and otherwise the number of frames whose rows
\* were parsed before the exception; has_xyxy tells whether the tensor format is
\* there for the fallback.
detect_batch(frames, model_loaded, raw, error_at, has_xyxy, zone) ==
    IF ~model_loaded \/ Len(frames) = 0
    THEN [k \in 1..Len(frames) |-> EmptyDetections]
    ELSE LET parsed == [k \in 1..Len(raw) |-> parse_rows(raw[k], 1, EmptyDetections, zone)]
             batch_detections ==
                 IF error_at = None THEN parsed
                 ELSE IF has_xyxy /\ Len(raw) > 0
                      THEN SubSeq(parsed, 1, error_at) \o parsed
                      ELSE [k \in 1..Len(frames) |-> EmptyDetections]
         IN  fit_to_frames(batch_detections, frames)

-----------------------------------------------------------------------------
(* The actuator dispatcher (DockManager._handle_state_change)              *)

\* A dispatcher that fires at every evaluation.
state_changed_always(new_state, previous) == TRUE

\* "Only process if state actually changed"
state_changed(new_state, previous) == new_state # previous

\* A dispatcher that calls the stop endpoint whatever the colour.
api_url_stop(new_state) == IF ~ENABLE_API_CALLS THEN "none" ELSE "STOP_API_URL"

\* The endpoint of the colour GET.
api_url(new_state) ==
    IF ~ENABLE_API_CALLS THEN "none"
    ELSE CASE new_state = "RED" -> "RED_API_URL"
           [] new_state = "YELLOW" -> "YELLOW_API_URL"
           [] new_state = "GREEN" -> "STOP_API_URL"
           [] OTHER -> "none"

\* The payload of the status POST, from last_detection_summary.
dock_status_payload(last_summary, zone, line_points) ==
    LET has == last_summary # <<>>
        truck_present == has /\ last_summary[1].truck_present
        human_present == has /\ last_summary[1].human_present
        truck_in_zone ==
            has /\ scan(last_summary[1].trucks, zone, line_points)[1]
    IN  [vehicle_status |-> IF truck_present /\ truck_in_zone
                            THEN "placed" ELSE "not_placed",
         human_presence |-> IF human_present THEN "present" ELSE "not_present"]

\* PLCManager.update_state: the command queue after the call.
update_state(new_state, queue, running, recorded_state) ==
    IF ~ENABLE_PLC \/ ~running THEN queue
    ELSE IF new_state # recorded_state
         THEN IF Len(queue) < command_queue_maxsize
              THEN Append(queue, new_state)
              ELSE Append(Tail(queue), new_state)
         ELSE queue

NoEffects ==
    [get |-> "none", post |-> <<>>, plc |-> "none", get_result |-> "none",
     post_result |-> "none"]

\* What _handle_state_change(new_state) sends out.
dispatch_effects(new_state, last_summary, zone, line_points) ==
    [get |-> api_url(new_state),
     post |-> IF ENABLE_DOCK_STATUS_API
              THEN <<dock_status_payload(last_summary, zone, line_points)>>
              ELSE <<>>,
     plc |-> IF ENABLE_PLC THEN new_state ELSE "none",
     get_result |-> IF api_url(new_state) # "none" THEN "pending" ELSE "none",
     post_result |-> IF ENABLE_DOCK_STATUS_API THEN "pending" ELSE "none"]

-----------------------------------------------------------------------------
(* The state machine                                                       *)

\* The clock at construction: time.time() lies far beyond reconnect_delay, so
\* the first reconnect attempt of _plc_loop is immediate.
StartTime == reconnect_delay

\* DockManager and PLCManager after construction.
ConstructedWithZone(zone) ==
    /\ zone_coordinates = zone
    /\ parking_line_points = PARKING_LINE_POINTS
    /\ wait_time_seconds = WaitTime
    /\ grace_period_frames = GracePeriod
    /\ now = StartTime
    /\ current_state = "UNKNOWN"
    /\ previous_state = "UNKNOWN"
    /\ parking_line_touch_start_time = None
    /\ not_touching_count = 0
    /\ last_detection_summary = <<>>
    /\ last_effects = NoEffects
    /\ is_running = ENABLE_PLC
    /\ plc_thread_alive = ENABLE_PLC
    /\ command_queue = <<>>
    /\ plc_current_state = "UNKNOWN"
    /\ is_connected = FALSE
    /\ last_error = "None"
    /\ last_reconnect_attempt = 0
    /\ client_is_open = FALSE
    /\ plc_coils = AllCoilsOff
    /\ last_coil_write = <<>>
    /\ link_ok = TRUE
    /\ h_calls = 0
    /\ h_streak = None
    /\ h_orig = None
    /\ h_nt_run = 0
    /\ h_timer_started = None
    /\ h_green_ep = None
    /\ h_back = FALSE
    /\ h_disp = <<"UNKNOWN", "UNKNOWN">>
    /\ h_unwritten = "none"
    /\ h_attempt = <<0, None>>

\* The threads that call track_error, and the error types the callers pass.
Callers == {1, 2}
Counters ==
    {"frame_queue_full_count", "result_queue_full_count", "dropped_frames_count",
     "video_read_errors"}
ErrorTypes ==
    {"frame_queue_full", "result_queue_full", "dropped_frame", "detection_error",
     "video_read_error", "general_error"}

\* No caller is inside track_error, and the main thread is not inside
\* get_parking_wait_remaining.
NoTrackCall ==
    /\ wait_pc = "idle"
    /\ error_lock = 0
    /\ track_pc = [t \in Callers |-> "idle"]
    /\ track_arg = [t \in Callers |-> <<>>]
    /\ track_read = [t \in Callers |-> 0]
    /\ h_track_calls = 0

\* error_stats as __init__ and reset_error_stats set it; last_error_time, a
\* wall-clock string, is left out.
FreshErrorStats ==
    [frame_queue_full_count |-> 0, result_queue_full_count |-> 0,
     dropped_frames_count |-> 0, detection_errors |-> <<>>, video_read_errors |-> 0,
     last_error |-> <<>>]

NoErrors ==
    /\ NoTrackCall
    /\ error_stats = FreshErrorStats
    /\ h_incr = [c \in Counters |-> 0]
    /\ h_messages = <<>>

Constructed == ConstructedWithZone(ZONE_COORDINATES)

\* No function call of its own under way.
NoFnCall ==
    /\ fn_call = <<>>
    /\ fn_result = <<>>
    /\ NoErrors

\* DockManagementUI before start_detection.
PipelineIdle ==
    /\ FRAME_SKIP = 0
    /\ enable_batch_processing = TRUE
    /\ h_evaluated = 0
    /\ ui_is_running = FALSE
    /\ frame_counter = 0
    /\ reader_pc = "done"
    /\ reader_tracked = {}
    /\ detect_tracked = {}
    /\ frame_queue = <<>>
    /\ detect_pc = "done"
    /\ batch_frames = <<>>
    /\ batch_detected = <<>>
    /\ batch_i = 0
    /\ result_queue = <<>>
    /\ ui_pc = "done"

Init ==
    /\ Constructed
    /\ NoFnCall
    /\ PipelineIdle

\* Time passes.
Tick ==
    /\ now < MaxTime
    /\ now' = now + 1
    /\ UNCHANGED <<config_vars, engine_vars, last_effects, plc_vars, hist_vars>>
    /\ UNCHANGED <<fn_vars, pipe_vars>>

\* What a summary shows, read off the scene: some truck is inside the zone; some
\* truck inside the zone touches the parking line.
AnyTruckInZone(summary) ==
    \E i \in 1..Len(summary.trucks) :
        truck_in_zone_at(summary.trucks[i].bbox, zone_coordinates)
TruckOnLineInZone(summary) ==
    \E i \in 1..Len(summary.trucks) :
        /\ truck_in_zone_at(summary.trucks[i].bbox, zone_coordinates)
        /\ truck_on_line_at(summary.trucks[i].bbox, parking_line_points)

\* The history variables after a determine_state call on `summary` that returned r.
\*   h_streak   the time of the first call of the current run of calls that all
\*              show a truck on the line and no human, when that run began with
\*              the dwell timer unset; None outside such a run
\*   h_nt_run   the number of calls, up to grace_period_frames, since the last
\*              call that showed a truck on the line, while a truck was present
\*   h_orig     the dwell timer after the first call showing a truck on the
\*              line, kept while a truck is present in every call and every run
\*              of calls without a truck on the line is shorter than the grace
\*              period; None otherwise
\*   h_green_ep the dwell timer of the call that returned GREEN for a truck on
\*              the line, kept while every later call shows a truck in the zone
\*              and every run of calls without a truck on the line is shorter
\*              than the grace period; None otherwise
\*   h_back     the call showed a truck on the line again, after one or more
\*              calls that did not, within the episode of h_orig
\*   h_timer_started  the time of the call that set the dwell timer
History(summary, r) ==
    LET touching == TruckOnLineInZone(summary)
        in_zone == AnyTruckInZone(summary)
        run == IF summary.truck_present /\ ~touching
               THEN Min(h_nt_run + 1, grace_period_frames) ELSE 0
    IN  /\ h_calls' = 1 - h_calls
        /\ h_streak' = IF touching /\ ~summary.human_present
                       THEN IF h_streak # None THEN h_streak
                            ELSE IF parking_line_touch_start_time = None
                                 THEN now ELSE None
                       ELSE None
        /\ h_nt_run' = run
        /\ h_orig' = IF ~summary.truck_present THEN None
                     ELSE IF touching
                          THEN IF h_orig # None THEN h_orig ELSE r.timer
                          ELSE IF run < grace_period_frames THEN h_orig ELSE None
        /\ h_timer_started' = IF r.timer = None THEN None
                              ELSE IF parking_line_touch_start_time = None
                                   THEN now ELSE h_timer_started
        /\ h_green_ep' = IF touching
                         THEN IF h_green_ep # None THEN h_green_ep
                              ELSE IF r.state = "GREEN" THEN r.timer ELSE None
                         ELSE IF in_zone /\ run < grace_period_frames
                              THEN h_green_ep ELSE None
        /\ h_back' = (touching /\ h_orig # None /\ h_nt_run >= 1)

\* DockManager.determine_state(summary), with the _handle_state_change it ends in.
DetermineState ==
    /\ Len(command_queue) < MaxBacklog
    /\ \E summary \in DetectionSummaries :
          LET r == determine_state(summary, now, parking_line_touch_start_time,
                                   not_touching_count, zone_coordinates,
                                   parking_line_points, wait_time_seconds,
                                   grace_period_frames)
              changed == state_changed(r.state, previous_state)
          IN  /\ last_detection_summary' = <<summary>>
              /\ parking_line_touch_start_time' = r.timer
              /\ not_touching_count' = r.count
              /\ current_state' = r.state
              /\ previous_state' = IF changed THEN r.state ELSE previous_state
              /\ last_effects' = IF changed
                                 THEN dispatch_effects(r.state, <<summary>>,
                                          zone_coordinates, parking_line_points)
                                 ELSE NoEffects
              /\ command_queue' = IF changed
                                  THEN update_state(r.state, command_queue,
                                                    is_running, plc_current_state)
                                  ELSE command_queue
              /\ h_disp' = IF changed THEN <<h_disp[2], r.state>> ELSE h_disp
              /\ History(summary, r)
    /\ UNCHANGED <<config_vars, now, is_running, plc_thread_alive, plc_current_state, is_connected,
                   last_error, last_reconnect_attempt, client_is_open, plc_coils,
                   last_coil_write, link_ok, h_unwritten, h_attempt>>
    /\ UNCHANGED <<fn_vars, pipe_vars>>

\* An _update_coils that writes the green vector for every state.
coils_to_write_green(state) == PLC_GREEN_LIGHT_COILS

\* The coil vector _update_coils writes for a state.
coils_to_write(state) ==
    CASE state = "GREEN" -> PLC_GREEN_LIGHT_COILS
      [] state = "RED" -> PLC_RED_LIGHT_COILS
      [] state = "YELLOW" -> PLC_YELLOW_LIGHT_COILS
      [] OTHER -> AllCoilsOff

\* A loop that tries to reconnect in every iteration.
backoff_elapsed_always(current_time, last_attempt) == TRUE

\* "Try to reconnect if enough time has passed"
backoff_elapsed(current_time, last_attempt) ==
    current_time - last_attempt >= reconnect_delay

\* _plc_loop, "Check connection status": the client, is_connected, last_error
\* and last_reconnect_attempt after it, and whether client.open() was called.
\* client.open() succeeds when the PLC answers.
check_connection(is_open, connected, error, last_attempt, current_time, answers) ==
    IF ~is_open
    THEN IF backoff_elapsed(current_time, last_attempt)
         THEN [is_open |-> answers,
               is_connected |-> answers,
               last_error |-> IF answers THEN "None" ELSE "Connection failed",
               last_reconnect_attempt |-> current_time,
               opened |-> TRUE]
         ELSE [is_open |-> is_open, is_connected |-> connected,
               last_error |-> error, last_reconnect_attempt |-> last_attempt,
               opened |-> FALSE]
    ELSE [is_open |-> is_open, is_connected |-> TRUE,
          last_error |-> error, last_reconnect_attempt |-> last_attempt,
          opened |-> FALSE]

\* One iteration of _plc_loop: the connection check, then at most one command
\* taken from the queue.  write_multiple_coils succeeds when the PLC answers; a
\* failed request closes the client's socket.
PlcLoopIteration ==
    /\ is_running
    /\ LET c == check_connection(client_is_open, is_connected, last_error,
                                 last_reconnect_attempt, now, link_ok)
       IN  /\ is_connected' = c.is_connected
           /\ last_error' = c.last_error
           /\ last_reconnect_attempt' = c.last_reconnect_attempt
           /\ h_attempt' = IF c.opened THEN <<1 - h_attempt[1], now>> ELSE h_attempt
           /\ IF command_queue = <<>>
              THEN /\ client_is_open' = c.is_open
                   /\ UNCHANGED <<command_queue, plc_current_state, plc_coils,
                                  last_coil_write, h_unwritten>>
              ELSE LET new_state == Head(command_queue)
                   IN  /\ command_queue' = Tail(command_queue)
                       /\ IF c.is_connected /\ c.is_open
                          THEN /\ last_coil_write' =
                                      <<[state |-> new_state,
                                         address |-> PLC_COIL_START_ADDRESS,
                                         values |-> coils_to_write(new_state)]>>
                               /\ plc_coils' = IF link_ok THEN coils_to_write(new_state)
                                               ELSE plc_coils
                               /\ plc_current_state' = IF link_ok THEN new_state
                                                       ELSE plc_current_state
                               /\ client_is_open' = link_ok
                               /\ h_unwritten' = IF link_ok THEN "none" ELSE new_state
                          ELSE /\ plc_current_state' = new_state
                               /\ client_is_open' = c.is_open
                               /\ h_unwritten' = new_state
                               /\ UNCHANGED <<plc_coils, last_coil_write>>
    /\ UNCHANGED <<config_vars, now, engine_vars, last_effects, is_running,
                   plc_thread_alive,
                   link_ok, h_calls, h_streak, h_orig, h_nt_run, h_timer_started,
                   h_green_ep, h_back, h_disp>>
    /\ UNCHANGED <<fn_vars, pipe_vars>>

Next ==
    \/ Tick
    \/ DetermineState
    \/ PlcLoopIteration

Spec == Init /\ [][Next]_vars

-----------------------------------------------------------------------------
(* The engine without a configured zone                                     *)

\* zone_coordinates is None, or a polygon of fewer than three points.
UnconfiguredZones == {<<>>, <<<<0, 0>>>>, <<<<0, 0>>, <<10, 10>>>>}

NoZoneInit ==
    /\ \E zone \in UnconfiguredZones : ConstructedWithZone(zone)
    /\ NoFnCall
    /\ PipelineIdle

NoZoneSpec == NoZoneInit /\ [][Next]_vars

-----------------------------------------------------------------------------
(* The engine with the main thread that displays the remaining wait         *)

\* get_parking_wait_remaining, called by update_frame and update_info on the
\* Tk main thread: "if self.parking_line_touch_start_time is None: return None"
GetWaitCheck ==
    /\ wait_pc = "idle"
    /\ wait_pc' = IF parking_line_touch_start_time = None THEN "idle" ELSE "checked"
    /\ UNCHANGED <<config_vars, now, engine_vars, last_effects, plc_vars, hist_vars>>
    /\ UNCHANGED <<fn_call, fn_result, track_vars, pipe_vars>>

\* "elapsed = time.time() - self.parking_line_touch_start_time", the second
\* read of the field: the call returns the remaining time, or with None the
\* subtraction raises TypeError; either way the call is over.
GetWaitUse ==
    /\ wait_pc = "checked"
    /\ wait_pc' = "idle"
    /\ UNCHANGED <<config_vars, now, engine_vars, last_effects, plc_vars, hist_vars>>
    /\ UNCHANGED <<fn_call, fn_result, track_vars, pipe_vars>>

\* make_request of _call_api, in its own daemon thread: urlopen returns a
\* status, or raises and the exception is printed.
MakeGetRequest ==
    /\ last_effects.get_result = "pending"
    /\ \E outcome \in {"ok", "failed"} :
          last_effects' = [last_effects EXCEPT !.get_result = outcome]
    /\ UNCHANGED <<config_vars, now, engine_vars, plc_vars, hist_vars, fn_vars, pipe_vars>>

\* make_request of _call_dock_status_api, in its own daemon thread
MakePostRequest ==
    /\ last_effects.post_result = "pending"
    /\ \E outcome \in {"ok", "failed"} :
          last_effects' = [last_effects EXCEPT !.post_result = outcome]
    /\ UNCHANGED <<config_vars, now, engine_vars, plc_vars, hist_vars, fn_vars, pipe_vars>>

\* The engine with the request threads its dispatches start.
ApiNext ==
    \/ Tick
    \/ DetermineState
    \/ MakeGetRequest
    \/ MakePostRequest

ApiSpec == Init /\ [][ApiNext]_vars

\* The PLC thread is not scheduled here: the engine and the main thread only.
DisplayNext ==
    \/ Tick
    \/ DetermineState
    \/ GetWaitCheck
    \/ GetWaitUse

DisplaySpec == Init /\ [][DisplayNext]_vars

-----------------------------------------------------------------------------
(* The functions of helpers.py and detector.py, each called on its own      *)

dock_vars == <<config_vars, now, engine_vars, last_effects, plc_vars, hist_vars>>

\* The zones: None, two points, the square, a triangle, an L.
\* The keys of check_points_config, in the order the code reads them.
check_point_keys == <<"top_left", "top_right", "bottom_right", "bottom_left", "center">>

\* The point of the box a key names, doubled: (x1, y1), (x2, y1), (x2, y2),
\* (x1, y2) and ((x1 + x2) / 2, (y1 + y2) / 2).
check_point(bbox, key) ==
    CASE key = "top_left" -> <<2 * bbox[1], 2 * bbox[2]>>
      [] key = "top_right" -> <<2 * bbox[3], 2 * bbox[2]>>
      [] key = "bottom_right" -> <<2 * bbox[3], 2 * bbox[4]>>
      [] key = "bottom_left" -> <<2 * bbox[1], 2 * bbox[4]>>
      [] key = "center" -> <<bbox[1] + bbox[3], bbox[2] + bbox[4]>>

\* check_points_config.get(key, False)
config_get(config, key) == key \in DOMAIN config /\ config[key]

\* A check that tests no point when none is enabled.
points_to_check_no_fallback(enabled_keys) == enabled_keys

\* "If no points are enabled, default to checking all (safety fallback)"
points_to_check(enabled_keys) ==
    IF enabled_keys = {}
    THEN {check_point_keys[k] : k \in 1..Len(check_point_keys)}
    ELSE enabled_keys

\* is_human_bbox_in_zone(bbox, zone_coordinates, check_points_config); a
\* configuration of None is <<>>, a dictionary d is <<d>>.
is_human_bbox_in_zone(bbox, zone, check_points_config) ==
    IF Len(zone) < 3 THEN TRUE
    ELSE LET config == IF check_points_config = <<>>
                       THEN [k \in {"top_left", "top_right", "bottom_right",
                                    "bottom_left", "center"} |-> TRUE]
                       ELSE check_points_config[1]
             enabled_keys == {check_point_keys[k] : k \in
                                 {j \in 1..Len(check_point_keys) :
                                     config_get(config, check_point_keys[j])}}
         IN  \E key \in points_to_check(enabled_keys) :
                 is_point_in_zone(check_point(bbox, key), zone)

Zones ==
    {<<>>, <<<<0, 0>>, <<10, 0>>>>, ZONE_COORDINATES,
     <<<<0, 0>>, <<10, 0>>, <<0, 10>>>>,
     <<<<0, 0>>, <<10, 0>>, <<10, 4>>, <<4, 4>>, <<4, 10>>, <<0, 10>>>>}

BoxCoords == {-2, 3, 8, 13}
ZoneBoxes ==
    {<<x1, y1, x2, y2>> : x1 \in BoxCoords, y1 \in BoxCoords,
                          x2 \in BoxCoords, y2 \in BoxCoords}

IsBboxInZoneCalls ==
    {[fn |-> "is_bbox_in_zone", bbox |-> b, zone |-> z] :
        b \in {c \in ZoneBoxes : c[1] < c[3] /\ c[2] < c[4]}, z \in Zones}

\* The configurations of the human check points: None, and every dictionary
\* that holds some of the five keys, each switched on or off.
CheckPointConfigs ==
    {<<>>} \cup
    {<<[k \in present |-> k \in on]>> :
        present \in SUBSET {check_point_keys[k] : k \in 1..Len(check_point_keys)},
        on \in SUBSET {"top_left", "top_right", "bottom_right", "bottom_left", "center"}}

IsHumanBboxInZoneCalls ==
    {[fn |-> "is_human_bbox_in_zone", bbox |-> b, zone |-> z, check_points_config |-> cfg] :
        b \in {c \in ZoneBoxes : c[1] < c[3] /\ c[2] < c[4]}, z \in Zones,
        cfg \in CheckPointConfigs}

\* The boxes tested against a polyline: a square, the same with its corners
\* swapped, a box of no width.
LineBoxes == {<<1, 1, 3, 3>>, <<3, 3, 1, 1>>, <<2, 1, 2, 3>>}
Grid == (0..GridMax) \X (0..GridMax)
GridCorners == {<<0, 0>>, <<GridMax, 0>>, <<0, GridMax>>, <<2, 2>>}
Polylines ==
    {<<>>} \cup {<<p>> : p \in Grid} \cup {<<p, q>> : p \in Grid, q \in Grid}
        \cup {<<p, q, r>> : p \in GridCorners, q \in GridCorners, r \in GridCorners}

CheckLineInsideBoxCalls ==
    {[fn |-> "check_line_inside_box", box |-> b, line_points |-> l] :
        b \in LineBoxes, l \in Polylines}

\* What the model yields for one frame: rows of a class id and a box.
OutsideBox == <<12, 12, 14, 14>>
RowLists ==
    {<<>>,
     <<[cls |-> CLASS_IDS.truck, bbox |-> TruckOnLine]>>,
     <<[cls |-> CLASS_IDS.forklift, bbox |-> TruckOffLine],
       [cls |-> CLASS_IDS.person, bbox |-> HumanBox]>>,
     <<[cls |-> CLASS_IDS.truck, bbox |-> OutsideBox]>>}
Yields == UNION {[1..m -> RowLists] : m \in 0..MaxYield}
\* The exception, if any, comes from results.pandas() itself or from a row.
ErrorPoints(raw) == {None, 0} \cup {k \in 1..(Len(raw) - 1) : raw[k + 1] # <<>>}

DetectBatchCalls ==
    {[fn |-> "detect_batch", frames |-> [k \in 1..c[1] |-> k], model_loaded |-> c[2],
      raw |-> c[3], error_at |-> c[4], has_xyxy |-> c[5]] :
        c \in {d \in (0..MaxBatch) \X BOOLEAN \X Yields \X (None..MaxYield) \X BOOLEAN :
                  d[4] \in ErrorPoints(d[3])}}

FnCalls ==
    IsBboxInZoneCalls \cup CheckLineInsideBoxCalls \cup DetectBatchCalls
        \cup IsHumanBboxInZoneCalls

FnInit ==
    /\ Constructed
    /\ PipelineIdle
    /\ fn_call \in {<<c>> : c \in FnCalls}
    /\ fn_result = <<>>
    /\ NoErrors

CallIsBboxInZone ==
    /\ fn_result = <<>>
    /\ fn_call[1].fn = "is_bbox_in_zone"
    /\ fn_result' = <<is_bbox_in_zone(fn_call[1].bbox, fn_call[1].zone)>>
    /\ UNCHANGED <<dock_vars, fn_call, track_vars, main_vars, pipe_vars>>

CallIsHumanBboxInZone ==
    /\ fn_result = <<>>
    /\ fn_call[1].fn = "is_human_bbox_in_zone"
    /\ fn_result' = <<is_human_bbox_in_zone(fn_call[1].bbox, fn_call[1].zone,
                                            fn_call[1].check_points_config)>>
    /\ UNCHANGED <<dock_vars, fn_call, track_vars, main_vars, pipe_vars>>

CallCheckLineInsideBox ==
    /\ fn_result = <<>>
    /\ fn_call[1].fn = "check_line_inside_box"
    /\ fn_result' = <<check_line_inside_box(fn_call[1].box, fn_call[1].line_points)>>
    /\ UNCHANGED <<dock_vars, fn_call, track_vars, main_vars, pipe_vars>>

CallDetectBatch ==
    /\ fn_result = <<>>
    /\ fn_call[1].fn = "detect_batch"
    /\ fn_result' = <<detect_batch(fn_call[1].frames, fn_call[1].model_loaded,
                                   fn_call[1].raw, fn_call[1].error_at,
                                   fn_call[1].has_xyxy, zone_coordinates)>>
    /\ UNCHANGED <<dock_vars, fn_call, track_vars, main_vars, pipe_vars>>

FnNext ==
    \/ CallIsBboxInZone
    \/ CallIsHumanBboxInZone
    \/ CallCheckLineInsideBox
    \/ CallDetectBatch

FnSpec == FnInit /\ [][FnNext]_vars

-----------------------------------------------------------------------------
(* track_error: the error statistics under their lock, two callers          *)

MAX_COUNTER_VALUE == 1000

\* The calls of track_error in one run.
MaxTrackCalls == 3

\* The counter an error type increments, "none" for the two types without one.
counter_of(error_type) ==
    CASE error_type = "frame_queue_full" -> "frame_queue_full_count"
      [] error_type = "result_queue_full" -> "result_queue_full_count"
      [] error_type = "dropped_frame" -> "dropped_frames_count"
      [] error_type = "video_read_error" -> "video_read_errors"
      [] OTHER -> "none"

\* A lock that anybody may take at any time.
lock_free_always(lock) == TRUE

\* "with self.error_lock": the lock can be taken when nobody holds it.
lock_free(lock) == lock = 0

\* The sequence without its first element: list.pop(0).
pop_0(list) == Tail(list)

\* The detection_error branch: "Keep only last 10 errors".  A message of 0 is
\* None or the empty string, which "if message" passes over.
recorded(stats, error_type, message) ==
    IF error_type = "detection_error" /\ message # 0
    THEN LET appended == Append(stats.detection_errors, message)
         IN  [stats EXCEPT !.detection_errors =
                 IF Len(appended) > 10 THEN pop_0(appended) ELSE appended]
    ELSE stats

any_counter_at_max(stats) == \E c \in Counters : stats[c] >= MAX_COUNTER_VALUE

\* "Check if any counter reached max value and reset all counters"
reset_if_max(stats) ==
    IF any_counter_at_max(stats)
    THEN [stats EXCEPT !.frame_queue_full_count = 0,
                       !.result_queue_full_count = 0,
                       !.dropped_frames_count = 0,
                       !.video_read_errors = 0,
                       !.detection_errors =
                           IF Len(@) > 10 THEN SubSeq(@, Len(@) - 9, Len(@)) ELSE @]
    ELSE stats

\* "Update last error"
with_last_error(stats, error_type, message) ==
    [stats EXCEPT !.last_error = IF message # 0 THEN <<error_type, message>>
                                 ELSE <<error_type>>]

\* The error statistics a run of the program can have reached before the
\* calls looked at: counters fresh or one short of the maximum, and no, nine
\* or ten detection errors recorded.
TrackInit ==
    /\ Constructed
    /\ PipelineIdle
    /\ fn_call = <<>>
    /\ fn_result = <<>>
    /\ NoTrackCall
    /\ h_incr \in [Counters -> {0, MAX_COUNTER_VALUE - 1}]
    /\ h_messages \in {<<>>, [k \in 1..9 |-> k], [k \in 1..10 |-> k]}
    /\ error_stats = [frame_queue_full_count |-> h_incr["frame_queue_full_count"],
                      result_queue_full_count |-> h_incr["result_queue_full_count"],
                      dropped_frames_count |-> h_incr["dropped_frames_count"],
                      detection_errors |-> h_messages,
                      video_read_errors |-> h_incr["video_read_errors"],
                      last_error |-> <<>>]

track_rest == <<dock_vars, fn_call, fn_result, main_vars, pipe_vars>>

\* A thread calls track_error(error_type, message) and enters the with block.
\* A detection error message gets its number in the order of arrival.
TrackAcquire(t) ==
    /\ track_pc[t] = "idle"
    /\ h_track_calls + Cardinality({u \in Callers : track_pc[u] # "idle"}) < MaxTrackCalls
    /\ lock_free(error_lock)
    /\ \E error_type \in ErrorTypes, has_message \in BOOLEAN :
          LET message == IF ~has_message THEN 0
                         ELSE IF error_type = "detection_error"
                         THEN Len(h_messages) + 1 ELSE 1
          IN  /\ track_arg' = [track_arg EXCEPT ![t] = <<error_type, message>>]
              /\ track_pc' = [track_pc EXCEPT ![t] =
                     IF counter_of(error_type) = "none" THEN "finish" ELSE "read"]
    /\ error_lock' = t
    /\ UNCHANGED <<track_rest, error_stats, track_read, h_incr, h_messages,
                   h_track_calls>>

\* error_stats[counter] += 1, the read
TrackRead(t) ==
    /\ track_pc[t] = "read"
    /\ track_read' = [track_read EXCEPT ![t] = error_stats[counter_of(track_arg[t][1])]]
    /\ track_pc' = [track_pc EXCEPT ![t] = "write"]
    /\ UNCHANGED <<track_rest, error_stats, error_lock, track_arg, h_incr, h_messages,
                   h_track_calls>>

\* error_stats[counter] += 1, the write
TrackWrite(t) ==
    /\ track_pc[t] = "write"
    /\ LET c == counter_of(track_arg[t][1])
       IN  /\ error_stats' = [error_stats EXCEPT ![c] = track_read[t] + 1]
           /\ h_incr' = [h_incr EXCEPT ![c] = @ + 1]
    /\ track_pc' = [track_pc EXCEPT ![t] = "finish"]
    /\ track_read' = [track_read EXCEPT ![t] = 0]
    /\ UNCHANGED <<track_rest, error_lock, track_arg, h_messages, h_track_calls>>

\* The rest of the with block: the message list, the reset, last_error; the
\* lock is released and the call returns.
TrackRelease(t) ==
    /\ track_pc[t] = "finish"
    /\ LET error_type == track_arg[t][1]
           message == track_arg[t][2]
           kept == recorded(error_stats, error_type, message)
       IN  /\ error_stats' = with_last_error(reset_if_max(kept), error_type, message)
           /\ h_messages' = IF error_type = "detection_error" /\ message # 0
                            THEN Append(h_messages, message) ELSE h_messages
           /\ h_incr' = IF any_counter_at_max(kept) THEN [c \in Counters |-> 0]
                        ELSE h_incr
    /\ error_lock' = 0
    /\ track_pc' = [track_pc EXCEPT ![t] = "idle"]
    /\ track_arg' = [track_arg EXCEPT ![t] = <<>>]
    /\ h_track_calls' = h_track_calls + 1
    /\ UNCHANGED <<track_rest, track_read>>

TrackNext ==
    \/ \E t \in Callers : TrackAcquire(t)
    \/ \E t \in Callers : TrackRead(t)
    \/ \E t \in Callers : TrackWrite(t)
    \/ \E t \in Callers : TrackRelease(t)

TrackSpec == TrackInit /\ [][TrackNext]_vars

-----------------------------------------------------------------------------
(* The PLC channel on its own: requests, the loop and a link that fails     *)

\* The states determine_state returns.
Colours == {"RED", "YELLOW", "GREEN"}

\* PLCManager.update_state(new_state) as _handle_state_change calls it: with a
\* state other than the one of the call before.
UpdateState ==
    /\ Len(command_queue) < MaxBacklog
    /\ \E new_state \in Colours :
          /\ new_state # h_disp[2]
          /\ command_queue' = update_state(new_state, command_queue, is_running,
                                           plc_current_state)
          /\ h_disp' = <<h_disp[2], new_state>>
    /\ UNCHANGED <<config_vars, now, engine_vars, last_effects, is_running,
                   plc_thread_alive,
                   plc_current_state, is_connected, last_error,
                   last_reconnect_attempt, client_is_open, plc_coils,
                   last_coil_write, link_ok, h_calls, h_streak, h_orig, h_nt_run,
                   h_timer_started, h_green_ep, h_back, h_unwritten, h_attempt, fn_vars,
                   pipe_vars>>

\* The PLC stops answering; it answers again.
LinkDown ==
    /\ link_ok
    /\ link_ok' = FALSE
    /\ UNCHANGED <<config_vars, now, engine_vars, last_effects, is_running,
                   plc_thread_alive,
                   command_queue, plc_current_state, is_connected, last_error,
                   last_reconnect_attempt, client_is_open, plc_coils,
                   last_coil_write, hist_vars, fn_vars, pipe_vars>>

LinkUp ==
    /\ ~link_ok
    /\ link_ok' = TRUE
    /\ UNCHANGED <<config_vars, now, engine_vars, last_effects, is_running,
                   plc_thread_alive,
                   command_queue, plc_current_state, is_connected, last_error,
                   last_reconnect_attempt, client_is_open, plc_coils,
                   last_coil_write, hist_vars, fn_vars, pipe_vars>>

PlcNext ==
    \/ Tick
    \/ UpdateState
    \/ PlcLoopIteration
    \/ LinkDown
    \/ LinkUp

PlcSpec == Init /\ [][PlcNext]_vars

\* The PLC thread keeps looping and the clock keeps running.
FairPlcSpec == PlcSpec /\ WF_vars(PlcLoopIteration) /\ WF_vars(Tick)

-----------------------------------------------------------------------------
(* The pipeline of DockManagementUI in multi-threaded, batched mode: the    *)
(* frame reader, the detection loop and the UI updater                      *)

MAX_FRAME_QUEUE_SIZE == MaxFrameQueue
MAX_RESULT_QUEUE_SIZE == MaxResultQueue
BATCH_SIZE == 2

\* The video: a truck stands in the zone, off the parking line, on every
\* other frame.
rows_of_frame(frame) ==
    IF frame % 2 = 1 THEN <<[cls |-> CLASS_IDS.truck, bbox |-> TruckOffLine]>> ELSE <<>>

\* The settings of FRAME_SKIP: the default 0, and every 2nd and every 3rd frame.
FrameSkips == {0, 2, 3}

\* start_detection has opened the source, created the queues and started the
\* three threads, with batching switched on or off and FRAME_SKIP one of skips.
PipelineStartedWith(batching, skips) ==
    /\ FRAME_SKIP \in skips
    /\ enable_batch_processing = batching
    /\ h_evaluated = 0
    /\ ui_is_running = TRUE
    /\ frame_counter = 0
    /\ reader_pc = "read"
    /\ reader_tracked = {}
    /\ detect_tracked = {}
    /\ frame_queue = <<>>
    /\ detect_pc = "collect"
    /\ batch_frames = <<>>
    /\ batch_detected = <<>>
    /\ batch_i = 0
    /\ result_queue = <<>>
    /\ ui_pc = "run"

\* The configuration as shipped: batches of BATCH_SIZE frames.
PipelineStarted == PipelineStartedWith(TRUE, FrameSkips)

PipeInit ==
    /\ Constructed
    /\ NoFnCall
    /\ PipelineStarted

\* A queue that takes every item.
queue_never_full(queue, maxsize) == FALSE

\* queue.Queue.put_nowait raises queue.Full
queue_full(queue, maxsize) == Len(queue) >= maxsize

\* A get that returns only with an item.
wakes_on_item(queue) == queue # <<>>

\* queue.get(timeout=...): the call is over within the timeout, with an item
\* or with queue.Empty.
wakes(queue) == TRUE

reader_vars == <<frame_counter, reader_pc, reader_tracked>>
detect_vars == <<detect_pc, batch_frames, batch_detected, batch_i, detect_tracked>>

\* A reader that passes every frame on.
skipped_never(counter, skip_setting) == FALSE

\* "Skip frames based on FRAME_SKIP setting", with the frame_skip the loop
\* derives from the setting when it starts.
skipped(counter, skip_setting) ==
    LET frame_skip == IF skip_setting > 0 THEN skip_setting ELSE 1
    IN  frame_skip > 1 /\ counter % frame_skip # 0
ui_vars == <<ui_pc>>
engine_side == <<config_vars, now, engine_vars, last_effects, hist_vars, fn_vars,
                 h_evaluated>>

\* frame_reading_loop, one iteration up to the first put_nowait: the loop ends
\* when is_running is false or the source has no frame left.
ReadFrame ==
    /\ reader_pc = "read"
    /\ IF ~ui_is_running
       THEN /\ reader_pc' = "done"
            /\ UNCHANGED <<frame_counter, frame_queue, reader_tracked>>
       ELSE IF frame_counter = VideoFrames
       THEN /\ reader_pc' = "done"
            /\ reader_tracked' = {"video_read_error"}
            /\ UNCHANGED <<frame_counter, frame_queue>>
       ELSE /\ frame_counter' = frame_counter + 1
            /\ IF skipped(frame_counter', FRAME_SKIP)
               THEN UNCHANGED <<reader_pc, frame_queue, reader_tracked>>
               ELSE IF queue_full(frame_queue, MAX_FRAME_QUEUE_SIZE)
               THEN /\ reader_pc' = "drop"
                    /\ reader_tracked' = {"frame_queue_full"}
                    /\ UNCHANGED frame_queue
               ELSE /\ frame_queue' = Append(frame_queue, frame_counter')
                    /\ UNCHANGED <<reader_pc, reader_tracked>>
    /\ UNCHANGED <<engine_side, plc_vars, ui_is_running, detect_vars, result_queue,
                   ui_vars>>

\* except queue.Full: frame_queue.get_nowait(); queue.Empty is passed over.
ReaderDrop ==
    /\ reader_pc = "drop"
    /\ IF frame_queue = <<>>
       THEN /\ reader_pc' = "read"
            /\ reader_tracked' = {}
            /\ UNCHANGED frame_queue
       ELSE /\ frame_queue' = Tail(frame_queue)
            /\ reader_pc' = "reput"
            /\ reader_tracked' = reader_tracked \cup {"dropped_frame"}
    /\ UNCHANGED <<engine_side, plc_vars, ui_is_running, frame_counter, detect_vars,
                   result_queue, ui_vars>>

\* frame_queue.put_nowait((frame_counter, frame)) after the drop
ReaderReput ==
    /\ reader_pc = "reput"
    /\ frame_queue' = Append(frame_queue, frame_counter)
    /\ reader_pc' = "read"
    /\ reader_tracked' = {}
    /\ UNCHANGED <<engine_side, plc_vars, ui_is_running, frame_counter, detect_vars,
                   result_queue, ui_vars>>

\* detection_processing_loop: "while self.is_running" with no batch under way
DetectExit ==
    /\ detect_pc = "collect"
    /\ batch_frames = <<>>
    /\ ~ui_is_running
    /\ wakes(frame_queue)
    /\ detect_pc' = "done"
    /\ UNCHANGED <<engine_side, plc_vars, ui_is_running, reader_vars, frame_queue,
                   batch_frames, batch_detected, batch_i, detect_tracked,
                   result_queue, ui_vars>>

\* "self.batch_size = config.BATCH_SIZE if self.enable_batch_processing else 1";
\* the single-frame loop takes one frame from the queue and evaluates it, as
\* a batch of one does.
batch_size == IF enable_batch_processing THEN BATCH_SIZE ELSE 1

\* A collector that never finds its batch full.
batch_has_room_always(batch) == TRUE

\* "while len(batch_frames) < self.batch_size"
batch_has_room(batch) == Len(batch) < batch_size

\* A get that leaves the frame in the queue.
after_get_peek(queue) == queue

\* The queue after frame_queue.get has taken its oldest frame.
after_get(queue) == Tail(queue)

\* "Try to collect a full batch": one frame_queue.get
CollectFrame ==
    /\ detect_pc = "collect"
    /\ ui_is_running \/ batch_frames # <<>>
    /\ frame_queue # <<>>
    /\ batch_has_room(batch_frames)
    /\ batch_frames' = Append(batch_frames, Head(frame_queue))
    /\ frame_queue' = after_get(frame_queue)
    /\ detect_tracked' = {}
    /\ UNCHANGED <<engine_side, plc_vars, ui_is_running, reader_vars, detect_pc,
                   batch_detected, batch_i, result_queue, ui_vars>>

\* The batch is full, the queue is empty or BATCH_TIMEOUT has passed:
\* detect_batch(batch_frames).  When the detector raises, the except clause of
\* the loop records a detection error and the loop goes on with the next batch.
DispatchBatch ==
    /\ detect_pc = "collect"
    /\ batch_frames # <<>>
    /\ \E raises \in BOOLEAN :
          IF raises
          THEN /\ batch_frames' = <<>>
               /\ detect_tracked' = {"detection_error"}
               /\ UNCHANGED <<detect_pc, batch_detected, batch_i>>
          ELSE /\ batch_detected' =
                      detect_batch(batch_frames, TRUE,
                                   [k \in 1..Len(batch_frames) |->
                                       rows_of_frame(batch_frames[k])],
                                   None, TRUE, zone_coordinates)
               /\ batch_i' = 1
               /\ detect_pc' = "evaluate"
               /\ UNCHANGED <<batch_frames, detect_tracked>>
    /\ UNCHANGED <<engine_side, plc_vars, ui_is_running, reader_vars, frame_queue,
                   result_queue, ui_vars>>

\* The for loop over the batch: get_detection_summary and determine_state on
\* one frame, with _handle_state_change up to the first put_nowait of
\* PLCManager.update_state.
EvaluateFrame ==
    /\ detect_pc = "evaluate"
    /\ LET summary == get_detection_summary(batch_detected[batch_i])
           r == determine_state(summary, now, parking_line_touch_start_time,
                                not_touching_count, zone_coordinates,
                                parking_line_points, wait_time_seconds,
                                grace_period_frames)
           changed == state_changed(r.state, previous_state)
           enqueue == /\ changed
                      /\ ENABLE_PLC
                      /\ is_running
                      /\ r.state # plc_current_state
       IN  /\ last_detection_summary' = <<summary>>
           /\ parking_line_touch_start_time' = r.timer
           /\ not_touching_count' = r.count
           /\ current_state' = r.state
           /\ previous_state' = IF changed THEN r.state ELSE previous_state
           /\ last_effects' = IF changed
                              THEN dispatch_effects(r.state, <<summary>>,
                                       zone_coordinates, parking_line_points)
                              ELSE NoEffects
           /\ h_disp' = IF changed THEN <<h_disp[2], r.state>> ELSE h_disp
           /\ History(summary, r)
           /\ h_evaluated' = batch_frames[batch_i]
           /\ IF enqueue /\ queue_full(command_queue, command_queue_maxsize)
              THEN /\ detect_pc' = "plc_drop"
                   /\ UNCHANGED command_queue
              ELSE /\ detect_pc' = "result_put"
                   /\ command_queue' = IF enqueue THEN Append(command_queue, r.state)
                                       ELSE command_queue
    /\ UNCHANGED <<config_vars, now, fn_vars, is_running, plc_thread_alive, plc_current_state,
                   is_connected, last_error, last_reconnect_attempt, client_is_open,
                   plc_coils, last_coil_write, link_ok, h_unwritten, h_attempt,
                   ui_is_running,
                   reader_vars, frame_queue, batch_frames, batch_detected, batch_i,
                   detect_tracked, result_queue, ui_vars>>

plc_side == <<is_running, plc_thread_alive, plc_current_state, is_connected, last_error,
              last_reconnect_attempt, client_is_open, plc_coils, last_coil_write,
              link_ok>>

\* update_state, except queue.Full: command_queue.get_nowait()
PlcDrop ==
    /\ detect_pc = "plc_drop"
    /\ IF command_queue = <<>>
       THEN /\ detect_pc' = "result_put"
            /\ UNCHANGED command_queue
       ELSE /\ command_queue' = Tail(command_queue)
            /\ detect_pc' = "plc_reput"
    /\ UNCHANGED <<engine_side, plc_side, ui_is_running, reader_vars, frame_queue,
                   batch_frames, batch_detected, batch_i, detect_tracked,
                   result_queue, ui_vars>>

\* update_state: command_queue.put_nowait(new_state) after the drop
PlcReput ==
    /\ detect_pc = "plc_reput"
    /\ command_queue' = Append(command_queue, current_state)
    /\ detect_pc' = "result_put"
    /\ UNCHANGED <<engine_side, plc_side, ui_is_running, reader_vars, frame_queue,
                   batch_frames, batch_detected, batch_i, detect_tracked,
                   result_queue, ui_vars>>

\* The result of the frame the for loop stands at.
result_of_frame == [frame |-> batch_frames[batch_i], state |-> current_state]

\* The for loop goes to the next frame of the batch, or the batch is done.
next_frame ==
    IF batch_i < Len(batch_frames)
    THEN [pc |-> "evaluate", frames |-> batch_frames, detected |-> batch_detected,
          i |-> batch_i + 1]
    ELSE [pc |-> "collect", frames |-> <<>>, detected |-> <<>>, i |-> 0]

\* result_queue.put_nowait(result)
ResultPut ==
    /\ detect_pc = "result_put"
    /\ IF queue_full(result_queue, MAX_RESULT_QUEUE_SIZE)
       THEN /\ detect_pc' = "result_drop"
            /\ detect_tracked' = {"result_queue_full"}
            /\ UNCHANGED <<result_queue, batch_frames, batch_detected, batch_i>>
       ELSE /\ result_queue' = Append(result_queue, result_of_frame)
            /\ detect_pc' = next_frame.pc
            /\ batch_frames' = next_frame.frames
            /\ batch_detected' = next_frame.detected
            /\ batch_i' = next_frame.i
            /\ UNCHANGED detect_tracked
    /\ UNCHANGED <<engine_side, plc_vars, ui_is_running, reader_vars, frame_queue,
                   ui_vars>>

\* except queue.Full: result_queue.get_nowait(); queue.Empty is passed over.
ResultDrop ==
    /\ detect_pc = "result_drop"
    /\ IF result_queue = <<>>
       THEN /\ detect_pc' = next_frame.pc
            /\ batch_frames' = next_frame.frames
            /\ batch_detected' = next_frame.detected
            /\ batch_i' = next_frame.i
            /\ detect_tracked' = {}
            /\ UNCHANGED result_queue
       ELSE /\ result_queue' = Tail(result_queue)
            /\ detect_pc' = "result_reput"
            /\ UNCHANGED <<batch_frames, batch_detected, batch_i, detect_tracked>>
    /\ UNCHANGED <<engine_side, plc_vars, ui_is_running, reader_vars, frame_queue,
                   ui_vars>>

\* result_queue.put_nowait(result) after the drop
ResultReput ==
    /\ detect_pc = "result_reput"
    /\ result_queue' = Append(result_queue, result_of_frame)
    /\ detect_pc' = next_frame.pc
    /\ batch_frames' = next_frame.frames
    /\ batch_detected' = next_frame.detected
    /\ batch_i' = next_frame.i
    /\ detect_tracked' = {}
    /\ UNCHANGED <<engine_side, plc_vars, ui_is_running, reader_vars, frame_queue,
                   ui_vars>>

\* ui_update_loop: one result taken from the queue for update_frame to draw;
\* the loop ends when is_running is false.
UiUpdate ==
    /\ ui_pc = "run"
    /\ IF ~ui_is_running
       THEN /\ wakes(result_queue)
            /\ ui_pc' = "done"
            /\ UNCHANGED result_queue
       ELSE /\ result_queue # <<>>
            /\ result_queue' = Tail(result_queue)
            /\ UNCHANGED ui_pc
    /\ UNCHANGED <<engine_side, plc_vars, ui_is_running, reader_vars, frame_queue,
                   detect_vars>>

\* stop_detection: is_running = False and both queues cleared
StopDetection ==
    /\ ui_is_running
    /\ ui_is_running' = FALSE
    /\ frame_queue' = <<>>
    /\ result_queue' = <<>>
    /\ UNCHANGED <<engine_side, plc_vars, reader_vars, detect_vars, ui_vars>>

\* PLCManager.stop: is_running = False, then the join of the PLC thread.
\* Only __del__ calls it, and the three threads of the pipeline hold the
\* DockManagementUI that holds the manager, so it runs when they are over.
PlcStop ==
    /\ ~ui_is_running
    /\ reader_pc = "done" /\ detect_pc = "done" /\ ui_pc = "done"
    /\ is_running
    /\ is_running' = FALSE
    /\ UNCHANGED <<engine_side, command_queue, plc_thread_alive, plc_current_state,
                   is_connected, last_error, last_reconnect_attempt, client_is_open,
                   plc_coils, last_coil_write, link_ok, pipe_vars>>

\* _plc_loop finds is_running false when command_queue.get(timeout=0.1) is
\* over and ends; the join in stop returns and stop closes the client.
PlcLoopExit ==
    /\ plc_thread_alive
    /\ ~is_running
    /\ wakes(command_queue)
    /\ plc_thread_alive' = FALSE
    /\ client_is_open' = FALSE
    /\ UNCHANGED <<engine_side, command_queue, is_running, plc_current_state,
                   is_connected, last_error, last_reconnect_attempt, plc_coils,
                   last_coil_write, link_ok, pipe_vars>>

\* One step of the frame reader, the detection loop or the UI updater.  The
\* PLC thread, the consumer of command_queue, is not scheduled here;
\* PlcSpec is where it runs.
PipelineThreads ==
    \/ ReadFrame
    \/ ReaderDrop
    \/ ReaderReput
    \/ DetectExit
    \/ CollectFrame
    \/ DispatchBatch
    \/ EvaluateFrame
    \/ PlcDrop
    \/ PlcReput
    \/ ResultPut
    \/ ResultDrop
    \/ ResultReput
    \/ UiUpdate
    \/ PlcLoopExit

PipeNext ==
    \/ PipelineThreads
    \/ StopDetection
    \/ PlcStop

PipeSpec == PipeInit /\ [][PipeNext]_vars

\* The pipeline in batched and in single-frame mode, every frame offered.
OrderInit ==
    /\ Constructed
    /\ NoFnCall
    /\ \E batching \in BOOLEAN : PipelineStartedWith(batching, {0})

OrderSpec == OrderInit /\ [][PipeNext]_vars

\* The threads keep running while one of them has something to do; nobody has
\* to press Stop.
FairPipeSpec == PipeSpec /\ WF_vars(PipelineThreads)

-----------------------------------------------------------------------------
(* Properties                                                              *)

\* A step is a determine_state call; the summary it was called with.
Call == h_calls' # h_calls
Arg == last_detection_summary'[1]
Evaluated == last_detection_summary # <<>>
Last == last_detection_summary[1]

\* C1: after determine_state on a summary without a truck the state is GREEN
\* and the dwell timer is unset, whatever the state, the timer and the human
\* flag were.
C1_NoTruckIsGreen ==
    (Evaluated /\ ~Last.truck_present)
        => (current_state = "GREEN" /\ parking_line_touch_start_time = None)

\* A call without a truck, with a human, that followed a YELLOW state.
C1_Witness ==
    /\ Evaluated /\ ~Last.truck_present /\ Last.human_present
    /\ h_disp = <<"YELLOW", "GREEN">>

\* C2: in a run of calls that all show a truck on the line and no human, begun
\* with the timer unset, a call earlier than wait_time_seconds after the first
\* returns YELLOW and a call at or after that time returns GREEN.
C2_YellowThenGreen ==
    [][(Call /\ h_streak' # None)
          => current_state' = IF now - h_streak' < wait_time_seconds
                              THEN "YELLOW" ELSE "GREEN"]_vars

\* Such a run has reached its deadline at a time later than its first call.
C2_Witness ==
    /\ h_streak # None
    /\ current_state = "GREEN"
    /\ h_disp = <<"YELLOW", "GREEN">>

\* C3: a call that shows a truck on the line and a human keeps a set dwell
\* timer (or starts it), returns RED before the deadline timer + wait_time_seconds
\* and GREEN at or after it.
C3_RedThenGreen ==
    [][(Call /\ TruckOnLineInZone(Arg) /\ Arg.human_present)
          => LET start == IF parking_line_touch_start_time = None
                          THEN now ELSE parking_line_touch_start_time
             IN  /\ parking_line_touch_start_time' = start
                 /\ current_state' = IF now < start + wait_time_seconds
                                     THEN "RED" ELSE "GREEN"]_vars

\* The countdown ended with the human still there: RED, then GREEN.
C3_Witness ==
    /\ Evaluated /\ TruckOnLineInZone(Last) /\ Last.human_present
    /\ current_state = "GREEN"
    /\ h_disp = <<"RED", "GREEN">>

\* C4 as stated: determine_state never returns GREEN for a summary with a human.
C4_Original ==
    (Evaluated /\ Last.human_present) => current_state # "GREEN"

\* C4 as amended: for a summary with a human, determine_state returns GREEN only
\* when no truck is inside the zone or a truck inside the zone touches the line
\* and the dwell time has elapsed.
C4_GreenWithHuman ==
    [][(Call /\ Arg.human_present /\ current_state' = "GREEN")
          => \/ ~AnyTruckInZone(Arg)
             \/ /\ TruckOnLineInZone(Arg)
                /\ parking_line_touch_start_time' # None
                /\ now - parking_line_touch_start_time' >= wait_time_seconds]_vars

\* A human and a truck in the zone whose countdown runs: the entry is blocked.
C4_Witness ==
    /\ Evaluated /\ Last.human_present /\ TruckOnLineInZone(Last)
    /\ current_state = "RED"
    /\ parking_line_touch_start_time # None

\* C5: while a truck is present in every call and every run of calls without a
\* truck on the line is shorter than grace_period_frames, the dwell timer keeps
\* the value it had after the first call with a truck on the line.
C5_GraceKeepsTimer ==
    h_orig # None => parking_line_touch_start_time = h_orig

\* The truck is back on the line after a call that did not show it there, later
\* than the timer's start.
C5_Witness ==
    /\ h_back
    /\ h_orig # None
    /\ now > h_orig

\* C6 as stated: after grace_period_frames or more consecutive calls with a truck
\* present and no truck on the line, the dwell timer is unset.
C6_Claim ==
    h_nt_run >= grace_period_frames => parking_line_touch_start_time = None

\* C7: determine_state returns GREEN for a summary with a truck inside the zone
\* only when a truck inside the zone touches the line and wait_time_seconds have
\* passed since the call that set the dwell timer; and the timer is set only by
\* a call whose summary shows a truck inside the zone on the line.
C7_GreenNeedsDwell ==
    [][/\ (Call /\ AnyTruckInZone(Arg) /\ current_state' = "GREEN")
            => /\ TruckOnLineInZone(Arg)
               /\ h_timer_started' # None
               /\ now - h_timer_started' >= wait_time_seconds
       /\ (parking_line_touch_start_time = None
           /\ parking_line_touch_start_time' # None)
            => (Call /\ TruckOnLineInZone(Arg))]_vars

\* GREEN for a truck in the zone.
C7_Witness ==
    /\ Evaluated /\ AnyTruckInZone(Last)
    /\ current_state = "GREEN"
    /\ now - h_timer_started >= wait_time_seconds

\* C8 as stated: from a GREEN for a truck on the line, while every run of calls
\* without the truck on the line is shorter than grace_period_frames, the state
\* does not change and nothing is sent to the actuators.
C8_Original ==
    [][(Call /\ h_green_ep # None /\ h_green_ep' # None)
          => /\ current_state' = current_state
             /\ last_effects' = NoEffects]_vars

\* C8 as amended: in such an episode the dwell timer is kept; a call without the
\* truck on the line returns YELLOW (RED with a human) and the next call with the
\* truck on the line returns GREEN at once; the actuators are addressed at the
\* calls that change the state and at no other.
C8_FlickerKeepsTimer ==
    [][(Call /\ h_green_ep # None /\ h_green_ep' # None)
          => /\ parking_line_touch_start_time' = h_green_ep
             /\ current_state' = IF TruckOnLineInZone(Arg) THEN "GREEN"
                                 ELSE IF Arg.human_present THEN "RED" ELSE "YELLOW"
             /\ (last_effects' = NoEffects) <=> (current_state' = current_state)]_vars

\* The truck is back on the line after a call that did not show it there:
\* GREEN, YELLOW, GREEN.
C8_Witness ==
    /\ h_back
    /\ h_green_ep # None
    /\ current_state = "GREEN"
    /\ h_disp = <<"YELLOW", "GREEN">>
    /\ last_effects # NoEffects

\* C9: a determine_state call sends the colour GET, the status POST and the PLC
\* update exactly when the state it returns differs from the state the call
\* before returned (UNKNOWN before the first call); two consecutive dispatches
\* carry different states.
C9_DispatchOnChange ==
    [][Call
          => /\ (current_state' # current_state)
                    => /\ last_effects'.get = api_url(current_state')
                       /\ last_effects'.get # "none"
                       /\ last_effects'.post # <<>>
                       /\ last_effects'.plc = current_state'
             /\ (current_state' = current_state) => last_effects' = NoEffects
             /\ h_disp'[1] # h_disp'[2]]_vars

\* A dispatch that is not the first one.
C9_Witness ==
    /\ last_effects # NoEffects
    /\ h_disp[1] # "UNKNOWN"

\* C10 as stated: a call that changes the engine state while the PLC channel
\* runs adds exactly one command, the new state, to the command queue.
C10_Claim ==
    [][(Call /\ current_state' # current_state /\ is_running)
          => command_queue' = IF Len(command_queue) < command_queue_maxsize
                              THEN Append(command_queue, current_state')
                              ELSE Append(Tail(command_queue), current_state')]_vars

\* The call of function f has returned.
Returned(f) == fn_call # <<>> /\ fn_call[1].fn = f /\ fn_result # <<>>

\* The corners of a box and its centre, doubled.
CornersOf(bbox) ==
    {<<2 * bbox[1], 2 * bbox[2]>>, <<2 * bbox[3], 2 * bbox[2]>>,
     <<2 * bbox[3], 2 * bbox[4]>>, <<2 * bbox[1], 2 * bbox[4]>>}
CentreOf(bbox) == <<bbox[1] + bbox[3], bbox[2] + bbox[4]>>

\* C15: is_bbox_in_zone returns True for every box when the zone is None or has
\* fewer than 3 points; otherwise True exactly when a corner of the box or its
\* centre is inside the polygon by is_point_in_zone.
C15_BboxInZone ==
    Returned("is_bbox_in_zone")
        => LET bbox == fn_call[1].bbox
               zone == fn_call[1].zone
           IN  fn_result[1] =
                   IF Len(zone) < 3 THEN TRUE
                   ELSE \E p \in CornersOf(bbox) \cup {CentreOf(bbox)} :
                            is_point_in_zone(p, zone)

\* A box around the whole zone: only its centre is inside.
C15_Witness ==
    /\ Returned("is_bbox_in_zone")
    /\ Len(fn_call[1].zone) >= 3
    /\ \A p \in CornersOf(fn_call[1].bbox) : ~is_point_in_zone(p, fn_call[1].zone)
    /\ fn_result[1] = TRUE

\* Plane geometry on integer points: the orientation of R against the line PQ,
\* R within the bounding rectangle of P and Q, segments AB and CD sharing a
\* point, segments AB and CD crossing at an inner point of both.
Cross(P, Q, R) == (Q[1] - P[1]) * (R[2] - P[2]) - (Q[2] - P[2]) * (R[1] - P[1])
Sign(x) == IF x > 0 THEN 1 ELSE IF x < 0 THEN 0 - 1 ELSE 0
Within(P, Q, R) ==
    /\ Min(P[1], Q[1]) <= R[1] /\ R[1] <= Max(P[1], Q[1])
    /\ Min(P[2], Q[2]) <= R[2] /\ R[2] <= Max(P[2], Q[2])
SegmentsCross(A, B, C, D) ==
    /\ Sign(Cross(C, D, A)) * Sign(Cross(C, D, B)) < 0
    /\ Sign(Cross(A, B, C)) * Sign(Cross(A, B, D)) < 0
SegmentsMeet(A, B, C, D) ==
    \/ SegmentsCross(A, B, C, D)
    \/ Cross(C, D, A) = 0 /\ Within(C, D, A)
    \/ Cross(C, D, B) = 0 /\ Within(C, D, B)
    \/ Cross(A, B, C) = 0 /\ Within(A, B, C)
    \/ Cross(A, B, D) = 0 /\ Within(A, B, D)

\* The four edges of a box, each a pair of end points.
EdgesOf(box) ==
    LET l == Min(box[1], box[3])
        r == Max(box[1], box[3])
        t == Min(box[2], box[4])
        b == Max(box[2], box[4])
    IN  {<<<<l, t>>, <<r, t>>>>, <<<<l, b>>, <<r, b>>>>,
         <<<<l, t>>, <<l, b>>>>, <<<<r, t>>, <<r, b>>>>}
VertexInBox(box, line) ==
    \E k \in 1..Len(line) : Within(<<box[1], box[2]>>, <<box[3], box[4]>>, line[k])
SegmentMeetsEdge(box, line) ==
    \E k \in 1..(Len(line) - 1) : \E e \in EdgesOf(box) :
        SegmentsMeet(e[1], e[2], line[k], line[k + 1])
SegmentCrossesEdge(box, line) ==
    \E k \in 1..(Len(line) - 1) : \E e \in EdgesOf(box) :
        SegmentsCross(e[1], e[2], line[k], line[k + 1])

\* C16 as stated: False for a polyline of fewer than 2 points; otherwise True
\* exactly when a vertex lies in the closed box or a segment shares a point with
\* one of the four edges, touching and corner cases included.
C16_Claim ==
    Returned("check_line_inside_box")
        => LET box == fn_call[1].box
               line == fn_call[1].line_points
           IN  fn_result[1] =
                   IF Len(line) < 2 THEN FALSE
                   ELSE VertexInBox(box, line) \/ SegmentMeetsEdge(box, line)

\* What a frame's rows amount to: the trucks and the persons among them, inside
\* a configured zone, in the order of the rows.
KeptRows(rows, zone, class_id) ==
    SelectSeq(rows, LAMBDA row : /\ row.cls = class_id
                                 /\ (Len(zone) < 3 \/ is_bbox_in_zone(row.bbox, zone)))
ResultOf(rows, zone) ==
    LET trucks == KeptRows(rows, zone, CLASS_IDS.truck)
        humans == KeptRows(rows, zone, CLASS_IDS.person)
    IN  [trucks |-> [k \in 1..Len(trucks) |-> Detection(trucks[k].bbox)],
         humans |-> [k \in 1..Len(humans) |-> Detection(humans[k].bbox)]]

\* C17 as stated: detect_batch returns one result per frame, in the order of the
\* frames: the result at position k is empty or what the model yielded for
\* frame k, and it is empty where the model yielded nothing for frame k.
C17_Claim ==
    Returned("detect_batch")
        => LET frames == fn_call[1].frames
               raw == fn_call[1].raw
               res == fn_result[1]
           IN  /\ Len(res) = Len(frames)
               /\ \A k \in 1..Len(res) :
                      \/ res[k] = EmptyDetections
                      \/ k <= Len(raw) /\ res[k] = ResultOf(raw[k], zone_coordinates)

\* The length alone: one result per frame, whatever the model yields.
C17_Length ==
    Returned("detect_batch") => Len(fn_result[1]) = Len(fn_call[1].frames)

\* C20: a call whose summary shows a truck inside the zone and no truck inside
\* the zone on the parking line returns RED with a human and YELLOW without,
\* whatever the dwell timer is.
C20_MisparkedTruck ==
    [][(Call /\ AnyTruckInZone(Arg) /\ ~TruckOnLineInZone(Arg))
          => current_state' = IF Arg.human_present THEN "RED" ELSE "YELLOW"]_vars

\* A mis-parked truck and no human, the dwell time of an earlier stay on the
\* line completed and the timer still set: YELLOW after GREEN.
C20_Witness ==
    /\ Evaluated /\ AnyTruckInZone(Last) /\ ~TruckOnLineInZone(Last)
    /\ ~Last.human_present
    /\ parking_line_touch_start_time # None
    /\ now - parking_line_touch_start_time >= wait_time_seconds
    /\ h_disp = <<"GREEN", "YELLOW">>

\* C18: every coil write request starts at the configured base address and
\* carries the green vector for GREEN, the red one for RED, the yellow one for
\* YELLOW; for any other state _update_coils chooses eight times False.
C18_CoilVectors ==
    /\ last_coil_write # <<>>
          => LET w == last_coil_write[1]
             IN  /\ w.address = PLC_COIL_START_ADDRESS
                 /\ w.state = "GREEN" => w.values = PLC_GREEN_LIGHT_COILS
                 /\ w.state = "RED" => w.values = PLC_RED_LIGHT_COILS
                 /\ w.state = "YELLOW" => w.values = PLC_YELLOW_LIGHT_COILS
                 /\ w.state \notin Colours
                        => (Len(w.values) = 8 /\ \A k \in 1..8 : ~w.values[k])
    /\ \A state \in DockStates \ Colours :
          /\ Len(coils_to_write(state)) = 8
          /\ \A k \in 1..8 : ~coils_to_write(state)[k]

\* A YELLOW write has reached the PLC after a RED one.
C18_Witness ==
    /\ last_coil_write # <<>>
    /\ last_coil_write[1].state = "YELLOW"
    /\ plc_coils = PLC_YELLOW_LIGHT_COILS
    /\ h_disp = <<"RED", "YELLOW">>

\* C12 as stated: once the link is up and the connection stays established, the
\* state requested last does not remain a state whose command was taken from
\* the queue while the link was down, or whose write failed, and never written
\* since; no further request of the engine is needed for that.
C12_Claim ==
    <>[](link_ok /\ client_is_open /\ is_connected) => <>[](h_unwritten # h_disp[2])

-----------------------------------------------------------------------------
(* The queues of the pipeline                                               *)

Newest(queue) == queue[Len(queue)]

\* C19: in every reachable state the frame queue holds at most
\* MAX_FRAME_QUEUE_SIZE frames, the result queue at most MAX_RESULT_QUEUE_SIZE
\* results and the PLC command queue at most 10 commands.
C19_QueueBounds ==
    /\ Len(frame_queue) <= MAX_FRAME_QUEUE_SIZE
    /\ Len(result_queue) <= MAX_RESULT_QUEUE_SIZE
    /\ Len(command_queue) <= command_queue_maxsize

\* C19: all three queues are full at once, the consumers having fallen behind.
C19_Witness ==
    /\ Len(frame_queue) = MAX_FRAME_QUEUE_SIZE
    /\ Len(result_queue) = MAX_RESULT_QUEUE_SIZE
    /\ Len(command_queue) = command_queue_maxsize
    /\ ui_is_running

\* C11: while detection runs, an enqueue that found its queue full (frame
\* queue, result queue, PLC command queue) ends with the newest item at the
\* back of that queue, whatever the consumer did in between.
C11_Claim ==
    [][ui_is_running' =>
         /\ (reader_pc \in {"drop", "reput"} /\ reader_pc' = "read")
                => (frame_queue' # <<>> /\ Newest(frame_queue') = frame_counter)
         /\ (detect_pc \in {"plc_drop", "plc_reput"} /\ detect_pc' = "result_put")
                => (command_queue' # <<>> /\ Newest(command_queue') = current_state)
         /\ (/\ detect_pc \in {"result_drop", "result_reput"}
             /\ detect_pc' \notin {"result_drop", "result_reput"})
                => (result_queue' # <<>> /\ Newest(result_queue') = result_of_frame)]_vars

\* C14: when the detector raises on a batch, the batch leaves the loop with an
\* empty summary evaluated by the engine and the dock state recomputed to GREEN.
C14_Claim ==
    [][(/\ detect_pc = "collect"
        /\ batch_frames # <<>>
        /\ detect_pc' = "collect"
        /\ batch_frames' = <<>>)
          => (/\ last_detection_summary' = <<get_detection_summary(EmptyDetections)>>
              /\ current_state' = "GREEN")]_vars

\* C13: once the frame reader has stopped, the detection loop and the UI
\* updater stop too.
C13_Claim == (reader_pc = "done") ~> (detect_pc = "done" /\ ui_pc = "done")

-----------------------------------------------------------------------------
(* The engine's fallback and its timer state                                *)

\* C21: a call whose summary shows at least one truck, none of them with its
\* centre or bottom centre inside the zone, returns GREEN, with or without a
\* human.
C21_TruckOutsideIsGreen ==
    [][(Call /\ Arg.truck_present /\ ~AnyTruckInZone(Arg))
          => current_state' = "GREEN"]_vars

\* A truck outside the zone and a human, right after a RED state.
C21_Witness ==
    /\ Evaluated /\ Last.truck_present /\ ~AnyTruckInZone(Last)
    /\ Last.human_present
    /\ h_disp = <<"RED", "GREEN">>

\* C22: after a call with no truck present the dwell timer is unset and
\* not_touching_count is 0.
C22_Claim ==
    (Evaluated /\ ~Last.truck_present)
        => (parking_line_touch_start_time = None /\ not_touching_count = 0)

-----------------------------------------------------------------------------
(* The PLC loop: recorded state, reconnects, shutdown                       *)

\* C23: the state recorded by the PLC channel changes only in a step that
\* wrote the coils of that state to a PLC that answered.
C23_Claim ==
    [][plc_current_state' # plc_current_state
          => /\ link_ok
             /\ last_coil_write' # <<>>
             /\ last_coil_write'[1].state = plc_current_state'
             /\ plc_coils' = coils_to_write(plc_current_state')]_vars

\* A step in which the loop called client.open().
Attempt == h_attempt'[1] # h_attempt[1]

\* C24: a reconnect attempt comes reconnect_delay or more after the attempt
\* before it (the first may come at once); an attempt the PLC does not answer
\* leaves is_connected False and last_error set.
C24_ReconnectBackoff ==
    [][Attempt
          => /\ h_attempt[2] # None => now - h_attempt[2] >= reconnect_delay
             /\ ~link_ok => (~is_connected' /\ last_error' = "Connection failed")]_vars

\* The second attempt, reconnect_delay after the first, has failed.
C24_Witness ==
    /\ h_attempt = <<0, StartTime + reconnect_delay>>
    /\ ~link_ok
    /\ ~is_connected
    /\ ~client_is_open
    /\ last_error = "Connection failed"

-----------------------------------------------------------------------------
(* The stages of the pipeline: batches, decimation, error counters, stop    *)

\* A step in which the detection loop hands its batch to the detector.
Dispatch ==
    /\ detect_pc = "collect"
    /\ \/ detect_pc' = "evaluate"
       \/ batch_frames # <<>> /\ batch_frames' = <<>>

\* C25: a batch handed to the detector holds at least 1 and at most batch_size
\* frames; the batch is always in the order the frames were read, and every
\* frame still in the queue was read after every frame of the batch.
C25_BatchShape ==
    /\ [][Dispatch => Len(batch_frames) \in 1..BATCH_SIZE]_vars
    /\ [](/\ Len(batch_frames) <= BATCH_SIZE
          /\ \A i, j \in 1..Len(batch_frames) : i < j => batch_frames[i] < batch_frames[j]
          /\ \A i \in 1..Len(batch_frames) : \A j \in 1..Len(frame_queue) :
                batch_frames[i] < frame_queue[j])

\* A partial batch of one frame is being evaluated while the queue has filled
\* up again.
C25_Witness ==
    /\ detect_pc = "evaluate"
    /\ Len(batch_frames) = 1
    /\ Len(frame_queue) = MAX_FRAME_QUEUE_SIZE

\* A step of frame_reading_loop that reads one frame from the source.
ReadsFrame == reader_pc = "read" /\ frame_counter' = frame_counter + 1

\* A step that offers the frame it read to frame_queue: the frame is put, or
\* the queue was full and the reader goes on to make room for it.
OffersFrame == frame_queue' = Append(frame_queue, frame_counter') \/ reader_pc' = "drop"

\* C26: with a frame-skip setting N > 1 the reader offers to the frame queue
\* exactly the frames whose 1-based counter is a multiple of N; with N <= 1,
\* the default 0 included, it offers every frame.
C26_FrameSkip ==
    /\ [][ReadsFrame => (OffersFrame <=> (FRAME_SKIP <= 1 \/ frame_counter' % FRAME_SKIP = 0))]_vars
    /\ \A n \in -1..1 : \A c \in 1..VideoFrames : ~skipped(c, n)

\* With N = 3, frames 1, 2, 4 and 5 have been read and passed over, and frame
\* 3 is the one in the queue.
C26_Witness ==
    /\ FRAME_SKIP = 3
    /\ frame_counter = 5
    /\ frame_queue = <<3>>

\* C27: a frame passed over by the frame skip is not discarded: the step that
\* skips it forwards it to the display, so it is in the result queue.
C27_Claim ==
    [][(ReadsFrame /\ skipped(frame_counter', FRAME_SKIP))
          => \E k \in 1..Len(result_queue') : result_queue'[k].frame = frame_counter']_vars

\* A step that takes the oldest item out of a full queue to make room.
FrameEviction == reader_pc = "drop" /\ reader_pc' = "reput"
ResultEviction == detect_pc = "result_drop" /\ detect_pc' = "result_reput"
CommandEviction == detect_pc = "plc_drop" /\ detect_pc' = "plc_reput"

\* The read of a frame fails while the pipeline is running.
ReadFailure == reader_pc = "read" /\ reader_pc' = "done" /\ ui_is_running

\* C28: every eviction from a full queue (frame queue, result queue, PLC
\* command queue) and every failed read of a frame has been counted by
\* track_error when the step is over.
C28_Claim ==
    [][/\ FrameEviction => reader_tracked' # {}
       /\ ReadFailure => reader_tracked' # {}
       /\ ResultEviction => detect_tracked' # {}
       /\ CommandEviction => detect_tracked' # {}]_vars

-----------------------------------------------------------------------------
(* The error statistics                                                     *)

\* The last n elements of a sequence, all of it when it is shorter.
LastN(seq, n) == IF Len(seq) > n THEN SubSeq(seq, Len(seq) - n + 1, Len(seq)) ELSE seq

\* C29: whenever no call of track_error is under way, each of the four
\* counters is below 1000 and holds every increment made since the last reset
\* (none is lost to a concurrent caller), and detection_errors is the last 10
\* messages recorded, in the order they arrived.
C29_TrackErrorBounded ==
    error_lock = 0 =>
        /\ \A c \in Counters : error_stats[c] < MAX_COUNTER_VALUE /\ error_stats[c] = h_incr[c]
        /\ Len(error_stats.detection_errors) <= 10
        /\ error_stats.detection_errors = LastN(h_messages, 10)

\* Three calls have returned: two detection errors pushed the two oldest of
\* ten messages out, and a failed read took its counter to 1000, which reset
\* all four.
C29_Witness ==
    /\ error_lock = 0
    /\ h_track_calls = MaxTrackCalls
    /\ error_stats.detection_errors = [k \in 1..10 |-> k + 2]
    /\ error_stats.last_error = <<"video_read_error">>
    /\ \A c \in Counters : error_stats[c] = 0

-----------------------------------------------------------------------------
(* Shutdown                                                                 *)

\* The steps each loop can still take once its flag is cleared: an upper
\* bound, 0 when the loop has ended.
ReaderStepsLeft ==
    CASE reader_pc = "drop" -> 3
      [] reader_pc = "reput" -> 2
      [] reader_pc = "read" -> 1
      [] OTHER -> 0

\* The frame the for loop stands at takes at most six more steps.
FrameStepsLeft ==
    CASE detect_pc = "evaluate" -> 6
      [] detect_pc = "plc_drop" -> 5
      [] detect_pc = "plc_reput" -> 4
      [] detect_pc = "result_put" -> 3
      [] detect_pc = "result_drop" -> 2
      [] OTHER -> 1

DetectStepsLeft ==
    CASE detect_pc = "done" -> 0
      [] detect_pc = "collect" /\ batch_frames = <<>> -> 1
      [] detect_pc = "collect" /\ batch_frames # <<>> ->
            (BATCH_SIZE - Len(batch_frames)) + 6 * BATCH_SIZE + 3
      [] OTHER -> 6 * (Len(batch_frames) - batch_i) + FrameStepsLeft + 1

UiStepsLeft == IF ui_pc = "done" THEN 0 ELSE 1

StepsLeft == ReaderStepsLeft + DetectStepsLeft + UiStepsLeft

ReaderStep == ReadFrame \/ ReaderDrop \/ ReaderReput
DetectStep == DetectExit \/ CollectFrame \/ DispatchBatch \/ EvaluateFrame \/ PlcDrop \/ PlcReput \/ ResultPut \/ ResultDrop \/ ResultReput

\* C30: once its running flag is cleared each loop ends in finitely many
\* steps, whether or not another item reaches the queue it reads.  With
\* DockManagementUI.is_running false, every step of the frame reader, the
\* detection loop and the UI updater lowers the number of steps left, and each
\* of the three that has not ended can take a step; with PLCManager.is_running
\* false, the PLC loop can end, and does so in one step.
C30_LoopsTerminate ==
    /\ [][~ui_is_running =>
             \/ StepsLeft' < StepsLeft
             \/ UNCHANGED <<reader_pc, detect_pc, batch_frames, batch_i, ui_pc>>]_vars
    /\ [](~ui_is_running =>
             /\ reader_pc # "done" => ENABLED ReaderStep
             /\ detect_pc # "done" => ENABLED DetectStep
             /\ ui_pc # "done" => ENABLED UiUpdate)
    /\ [](~is_running /\ plc_thread_alive => ENABLED PlcLoopExit)
    /\ [](StepsLeft = 0 <=> (reader_pc = "done" /\ detect_pc = "done" /\ ui_pc = "done"))

\* Stop was pressed with a batch under evaluation and the reader about to
\* make room in the queue; all four loops have ended and commands are left in
\* the PLC queue.
C30_Witness ==
    /\ ~ui_is_running
    /\ ~is_running
    /\ reader_pc = "done" /\ detect_pc = "done" /\ ui_pc = "done"
    /\ ~plc_thread_alive
    /\ frame_counter < VideoFrames
    /\ command_queue # <<>>
    /\ result_queue # <<>>

\* stop_detection has cleared the flag and its joins have returned with the
\* three threads over.
ShutdownCompleted ==
    ~ui_is_running /\ reader_pc = "done" /\ detect_pc = "done" /\ ui_pc = "done"

\* C31: once shutdown has completed, the frame queue and the result queue are
\* empty.
C31_Claim == ShutdownCompleted => (frame_queue = <<>> /\ result_queue = <<>>)

-----------------------------------------------------------------------------
(* The engine's state and other threads                                     *)

\* C32: no thread but the detection thread uses the dwell timer while
\* determine_state can run, so the timer is never unset between another
\* thread's None test and its use of the value: the main thread's
\* get_parking_wait_remaining never finds None at its second read.
C32_Claim ==
    [][(wait_pc = "checked" /\ wait_pc' = "idle") => parking_line_touch_start_time # None]_vars

-----------------------------------------------------------------------------
(* The HTTP calls of a dispatch                                             *)

\* A step of one of the request threads.
RequestReturns == ~Call /\ last_effects' # last_effects

\* C33: a call that changes the state starts one GET, to the endpoint of the
\* new colour, and one status POST, whose human_presence is "present" exactly
\* when the summary has a human and whose vehicle_status is "placed" exactly
\* when it has a truck and a truck in the zone.  A request that returns, with
\* success or failure, ends for good and leaves the engine state, the timer
\* and the PLC queue alone.
C33_ApiDispatch ==
    /\ [][(Call /\ current_state' # current_state)
             => /\ last_effects'.get =
                      (CASE current_state' = "RED" -> "RED_API_URL"
                         [] current_state' = "YELLOW" -> "YELLOW_API_URL"
                         [] current_state' = "GREEN" -> "STOP_API_URL")
                /\ last_effects'.get_result = "pending"
                /\ Len(last_effects'.post) = 1
                /\ last_effects'.post_result = "pending"
                /\ (last_effects'.post[1].human_presence = "present") <=> Arg.human_present
                /\ (last_effects'.post[1].vehicle_status = "placed")
                       <=> (Arg.truck_present /\ AnyTruckInZone(Arg))]_vars
    /\ [][RequestReturns
             => /\ UNCHANGED <<engine_vars, command_queue>>
                /\ last_effects'.get = last_effects.get
                /\ last_effects'.post = last_effects.post
                /\ \A f \in {"get_result", "post_result"} :
                      last_effects'[f] # last_effects[f]
                         => (last_effects[f] = "pending" /\ last_effects'[f] # "pending")]_vars

\* The change to RED for a truck in the zone with a human: the GET has failed
\* and the POST has gone through.
C33_Witness ==
    /\ current_state = "RED"
    /\ last_effects.get = "RED_API_URL"
    /\ last_effects.get_result = "failed"
    /\ last_effects.post_result = "ok"
    /\ last_effects.post[1] = [vehicle_status |-> "placed", human_presence |-> "present"]

-----------------------------------------------------------------------------
(* The dwell time and the grace period                                      *)

\* C34: GREEN for a truck in the zone on the line means the truck was in
\* place for the whole dwell time.  When the GREEN comes exactly
\* wait_time_seconds after the timer was set, the run of evaluations without
\* an in-zone truck on the line that ends at this call, all of them made
\* since the timer was set, is shorter than grace_period_frames.
C34_Claim ==
    [][(/\ Call /\ TruckOnLineInZone(Arg) /\ current_state' = "GREEN"
        /\ parking_line_touch_start_time # None
        /\ now - parking_line_touch_start_time = wait_time_seconds)
          => h_nt_run < grace_period_frames]_vars

-----------------------------------------------------------------------------
(* The PLC follows the engine                                               *)

\* C35: when the PLC answers all the time and the engine's state, dispatched
\* at least once, stops changing, the coils end up showing the engine's final
\* state and stay so.
C35_Claim ==
    ([]link_ok /\ <>(h_disp[2] # "UNKNOWN") /\ ~[]<><<h_disp' # h_disp>>_vars)
        => <>[](plc_coils = coils_to_write(h_disp[2]))

-----------------------------------------------------------------------------
(* What determine_state returns                                             *)

\* C36: determine_state returns RED only for a summary with a human and a
\* truck inside the zone, so never for an empty summary; the state it returns
\* is RED, YELLOW or GREEN, and current_state and previous_state both hold it
\* when the call is over.
C36_RedNeedsHumanAndTruck ==
    /\ [][(Call /\ current_state' = "RED")
             => (Arg.human_present /\ AnyTruckInZone(Arg))]_vars
    /\ [][(Call /\ ~Arg.truck_present /\ ~Arg.human_present)
             => current_state' # "RED"]_vars
    /\ [](Evaluated => (current_state \in {"RED", "YELLOW", "GREEN"}
                          /\ previous_state = current_state))

\* RED for a human and a truck in the zone, right after a GREEN.
C36_Witness ==
    /\ Evaluated /\ Last.human_present /\ AnyTruckInZone(Last)
    /\ current_state = "RED"
    /\ previous_state = "RED"
    /\ h_disp = <<"GREEN", "RED">>

\* C37: with the zone unconfigured (None, or fewer than 3 points) no truck is
\* in the zone, determine_state returns GREEN for every summary and the dwell
\* timer is never set.
C37_NoZoneIsGreen ==
    /\ [][(Call /\ Len(zone_coordinates) < 3)
             => (/\ ~AnyTruckInZone(Arg)
                 /\ current_state' = "GREEN"
                 /\ parking_line_touch_start_time' = None)]_vars
    /\ [](Len(zone_coordinates) < 3 => parking_line_touch_start_time = None)

\* A truck over the parking line and a human have been evaluated with a zone
\* of two points.
C37_Witness ==
    /\ Len(zone_coordinates) = 2
    /\ Evaluated /\ Last.human_present
    /\ \E k \in 1..Len(Last.trucks) : Last.trucks[k].bbox = TruckOnLine
    /\ current_state = "GREEN"

\* C38: after every call not_touching_count lies in 0 .. grace_period_frames - 1;
\* it is 0 whenever the dwell timer goes from unset to set; and a call with a
\* truck present unsets a running timer only when the run of evaluations
\* without a truck on the line has reached grace_period_frames.
C38_CountBounded ==
    /\ [](not_touching_count \in 0..(grace_period_frames - 1))
    /\ [][(parking_line_touch_start_time = None /\ parking_line_touch_start_time' # None)
             => not_touching_count' = 0]_vars
    /\ [][(/\ Call /\ Arg.truck_present
            /\ parking_line_touch_start_time # None
            /\ parking_line_touch_start_time' = None)
             => h_nt_run' >= grace_period_frames]_vars

\* The grace period has ended a dwell timer at an evaluation without a human
\* that followed one with a human.
C38_Witness ==
    /\ Evaluated /\ AnyTruckInZone(Last) /\ ~Last.human_present
    /\ parking_line_touch_start_time = None
    /\ not_touching_count = 0
    /\ h_nt_run = grace_period_frames
    /\ h_disp = <<"RED", "YELLOW">>

\* C39: every frame passed to determine_state has a read counter above that
\* of the frame passed before it, so frames reach the engine in strictly
\* increasing order and none twice, in batched and in single-frame mode; the
\* frame is one the reader has read.
C39_FramesInOrder ==
    /\ [][Call => (h_evaluated' > h_evaluated /\ h_evaluated' \in 1..frame_counter)]_vars
    /\ [][~Call => h_evaluated' = h_evaluated]_vars

\* In single-frame mode a frame has been evaluated while the reader stands
\* between evicting the oldest frame and putting the newest.
C39_Witness ==
    /\ ~enable_batch_processing
    /\ reader_pc = "reput"
    /\ detect_pc = "result_put"
    /\ h_evaluated > 1

\* The check points the claim counts as enabled: all five for a configuration
\* of None or one that switches none on, otherwise those switched on.
FivePoints == {"top_left", "top_right", "bottom_right", "bottom_left", "center"}
SwitchedOn(cfg) ==
    IF cfg = <<>> THEN FivePoints
    ELSE {key \in FivePoints \cap DOMAIN cfg[1] : cfg[1][key]}
EnabledCheckPoints(cfg) == IF SwitchedOn(cfg) = {} THEN FivePoints ELSE SwitchedOn(cfg)
HumanCallReturned ==
    /\ fn_call # <<>>
    /\ fn_result # <<>>
    /\ fn_call[1].fn = "is_human_bbox_in_zone"

\* C40: is_human_bbox_in_zone returns True for a zone of fewer than 3 points,
\* and otherwise exactly when an enabled check point is inside the zone, all
\* five points counting as enabled when the configuration is None or
\* switches none on.
C40_HumanBboxInZone ==
    HumanCallReturned =>
        LET call == fn_call[1]
        IN  fn_result[1] =
               IF Len(call.zone) < 3 THEN TRUE
               ELSE \E key \in EnabledCheckPoints(call.check_points_config) :
                        is_point_in_zone(check_point(call.bbox, key), call.zone)

\* A box with a point in the zone was found outside it, because the only
\* point inside is switched off.
C40_Witness ==
    /\ HumanCallReturned
    /\ fn_call[1].check_points_config # <<>>
    /\ Len(fn_call[1].zone) >= 3
    /\ is_bbox_in_zone(fn_call[1].bbox, fn_call[1].zone)
    /\ fn_result = <<FALSE>>

=============================================================================
